---- MODULE Spec2Model ----
(***************************************************************************)
(* Model of graph_algorithm_tui: the weighted adjacency-list graph         *)
(* (src/src/graph.rs) and its four instrumented algorithms dfs, bfs,       *)
(* dijkstra and prim.  Every loop of the source is unrolled into steps:    *)
(* one step per pop of the worklist and one step per adjacency entry       *)
(* scanned, so that the moment at which an event is appended is a state    *)
(* transition of the model.                                                *)
(***************************************************************************)
EXTENDS Integers, Sequences, FiniteSets, TLC

\* ------------------------------------------------------------------ bounds
MaxNode == 3
MaxWeight == 2
MaxEdges == 3
MaxRuns == 2
MaxNegEdges == 2
MaxPlayEdges == 2
MaxFanEdges == 3
MaxRestartEdges == 2
MaxMenuWidth == 2
MaxMoves == 3
MaxKeyEdges == 1
IntBits == 7

Nodes == 1..MaxNode
Weights == 0..MaxWeight
EdgeTypes == {"Single", "Both"}

VARIABLES
  adj,            \* Graph.adj: HashMap<i64, Vec<(i64, i64)>>
  ncalls,         \* number of add_edge calls made so far
  allBoth,        \* history: every add_edge call so far was EdgeType::Both
  pc,             \* position of the running call ("idle" when none runs)
  alg,            \* the algorithm invoked ("none" before the first call)
  src,            \* its source argument s
  visited,        \* bfs/dfs: visited
  visited_nodes,  \* all four: visited_nodes
  visited_edges,  \* all four: visited_edges
  q,              \* bfs: q (VecDeque)
  stack,          \* dfs: the call stack of dfs_helper, frames [curr, idx]
  cur,            \* bfs: the dequeued node u
  state,          \* dijkstra/prim: the popped State [cost, node]
  idx,            \* position of the for-loop in the adjacency list being scanned
  pq,             \* dijkstra/prim: pq (BinaryHeap<State>), its backing Vec
  dist,           \* dijkstra/prim: dist
  parent,         \* dijkstra/prim: parent
  processed,      \* dijkstra: processed
  booked,         \* prim: booked
  total_cost,     \* prim: total_cost
  runs,           \* number of calls that have returned
  steps,          \* number of steps the current call has taken
  wraps,          \* an addition has wrapped: the build has overflow checks off
  app,            \* struct App of main.rs: the fields the model follows
  prev            \* what the previous call returned (<<>> when there is none)

graphVars == <<adj, ncalls, allBoth>>
travVars == <<visited, q, stack>>
heapVars == <<pq, state, dist, parent, processed, booked, total_cost>>
vars == <<adj, ncalls, allBoth, pc, alg, src, visited, visited_nodes,
          visited_edges, q, stack, cur, state, idx, pq, dist, parent,
          processed, booked, total_cost, runs, steps, wraps, app, prev>>

\* ------------------------------------------------------------- collections
\* HashMap::new(): the map with no key.
EmptyMap == [k \in {} |-> 0]

\* HashMap::insert(k, v): later writes overwrite earlier ones.
MapPut(m, k, v) == [x \in (DOMAIN m) \cup {k} |-> IF x = k THEN v ELSE m[x]]

\* self.adj.entry(u).or_insert(Vec::new()).push(e)
PushEntryFront(a, u, e) ==
  MapPut(a, u, <<e>> \o (IF u \in DOMAIN a THEN a[u] ELSE <<>>))

PushEntry(a, u, e) ==
  MapPut(a, u, Append(IF u \in DOMAIN a THEN a[u] ELSE <<>>, e))

\* self.adj.get(&u): the list of u, or nothing to iterate when u is no key.
AdjOf(u) == IF u \in DOMAIN adj THEN adj[u] ELSE <<>>

\* ------------------------------------------------------------------- graph
\* Graph::new()
GraphNew == EmptyMap

\* Graph::add_edge as a function of the map.
AddEdgeTo(a, u, v, w, t) ==
  IF t = "Single"
    THEN PushEntry(a, u, <<v, w>>)
    ELSE PushEntry(PushEntry(a, u, <<v, w>>), v, <<u, w>>)

\* --------------------------------------------------------------- the menu
\* Option<T>: None is the empty sequence, Some(x) the sequence of x alone.
\* MenuSignal is carried the same way: None, Selected(name).
None == <<>>
Some(x) == <<x>>

\* slice.get(index), with the index counted from 0 as in the source.
Get(list, index) ==
  IF index < Len(list) THEN Some(list[index + 1]) ELSE None

\* MenuItem::new and MenuItem::leaf.
MenuItemNew(name, children) == [name |-> name, children |-> children]
MenuItemLeaf(name) == MenuItemNew(name, <<>>)

\* MenuState::new: list_state is followed by its selected index.
MenuNew(items) ==
  [ root_items |-> items,
    nav_stack |-> <<>>,
    selected |-> Some(0),
    last_selected_item |-> None ]

\* MenuState::get_current_items: the walk down nav_stack, an index that
\* names no item being passed over.
RECURSIVE CurrentItemsFrom(_, _)
CurrentItemsFrom(list, path) ==
  IF path = <<>> THEN list
  ELSE LET item == Get(list, Head(path))
       IN CurrentItemsFrom(IF item # None THEN item[1].children ELSE list,
                           Tail(path))

GetCurrentItems(m) == CurrentItemsFrom(m.root_items, m.nav_stack)

\* `if i == 0 { len - 1 } else { i - 1 }` of up.
StepUpNoWrap(i, len) == IF i = 0 THEN 0 ELSE i - 1

StepUp(i, len) == IF i = 0 THEN len - 1 ELSE i - 1

\* `if i >= len - 1 { 0 } else { i + 1 }` of down.
StepDown(i, len) == IF i >= len - 1 THEN 0 ELSE i + 1

\* MenuState::up and MenuState::down.
Up(m) ==
  LET len == Len(GetCurrentItems(m)) IN
  IF len = 0 THEN m
  ELSE [m EXCEPT !.selected =
          Some(IF m.selected # None THEN StepUp(m.selected[1], len) ELSE 0)]

Down(m) ==
  LET len == Len(GetCurrentItems(m)) IN
  IF len = 0 THEN m
  ELSE [m EXCEPT !.selected =
          Some(IF m.selected # None THEN StepDown(m.selected[1], len) ELSE 0)]

\* The pair (has_children, name) that enter reads off the selected item;
\* (false, "") when the index names no item.
EnterItem(m) ==
  LET item == Get(GetCurrentItems(m), m.selected[1]) IN
  IF item # None
    THEN [has_children |-> item[1].children # <<>>, name |-> item[1].name]
    ELSE [has_children |-> FALSE, name |-> ""]

\* `self.nav_stack.push(selected_idx)` of enter.
PushNothing(nav, i) == nav

PushIndex(nav, i) == Append(nav, i)

\* MenuState::enter: the state it leaves and the signal it returns.
Enter(m) ==
  IF m.selected = None THEN m
  ELSE IF EnterItem(m).has_children
    THEN [m EXCEPT !.nav_stack = PushIndex(@, m.selected[1]),
                   !.selected = Some(0)]
    ELSE [m EXCEPT !.last_selected_item = Some(EnterItem(m).name)]

EnterSignal(m) ==
  IF m.selected = None THEN None
  ELSE IF EnterItem(m).has_children THEN None
  ELSE Some(EnterItem(m).name)

\* `self.list_state.select(Some(last_index))` of back.
SelectFirst(last_index) == Some(0)

SelectPopped(last_index) == Some(last_index)

\* MenuState::back.
Back(m) ==
  IF m.nav_stack # <<>>
    THEN [m EXCEPT !.nav_stack = SubSeq(@, 1, Len(@) - 1),
                   !.selected = SelectPopped(m.nav_stack[Len(m.nav_stack)]),
                   !.last_selected_item = None]
    ELSE m

\* The menu of the application, App::new.  The names "遍历", "最短路径" and
\* "退出" of the source are written "Traversal", "ShortestPath" and "Exit".
AppMenuItems ==
  << MenuItemNew("Traversal", <<MenuItemLeaf("Dfs"), MenuItemLeaf("Bfs")>>),
     MenuItemNew("MST", <<MenuItemLeaf("Prim")>>),
     MenuItemNew("ShortestPath", <<MenuItemLeaf("Dijkstra")>>),
     MenuItemLeaf("Exit") >>

\* App::new(): the fields of the application the model follows.  graph is
\* the displayed ForceGraph, as the node ids in index order and the edges
\* (u, v, w) in insertion order.
AppNew ==
  [ graph |-> [nodes |-> <<>>, edges |-> <<>>],
    visited_nodes |-> {},
    visited_edges |-> {},
    animation_nodes |-> <<>>,
    animation_edges |-> <<>>,
    animation_index |-> 0,
    animation_timer |-> 0,
    animation_step_is_edge |-> FALSE,
    current_algorithm |-> "",
    visit_log |-> <<>>,
    prim_total_cost |-> 0,
    dijkstra_dist |-> EmptyMap,
    dijkstra_parent |-> EmptyMap,
    menu |-> MenuNew(AppMenuItems),
    exit |-> FALSE ]

\* Working state of a call, as it is before any algorithm has been invoked
\* and as every Start action re-creates the part it uses.
EngineIdle ==
  /\ pc = "idle" /\ alg = "none" /\ src = 0
  /\ visited = {} /\ visited_nodes = <<>> /\ visited_edges = <<>>
  /\ q = <<>> /\ stack = <<>> /\ cur = 0 /\ idx = 0
  /\ state = [cost |-> 0, node |-> 0]
  /\ pq = <<>> /\ dist = EmptyMap /\ parent = EmptyMap
  /\ processed = {} /\ booked = {} /\ total_cost = 0
  /\ runs = 0 /\ steps = 0 /\ wraps = FALSE /\ prev = <<>>

NoCall == EngineIdle /\ app = AppNew

Init ==
  /\ adj = GraphNew
  /\ ncalls = 0
  /\ allBoth = TRUE
  /\ NoCall

\* Graph::add_edge(u, v, w, edge_type).  The graph is built before the
\* algorithms are invoked (tests/graph_test.rs, App::run).
AddEdge(u, v, w, t) ==
  /\ pc = "idle" /\ alg = "none"
  /\ ncalls < MaxEdges
  /\ adj' = AddEdgeTo(adj, u, v, w, t)
  /\ ncalls' = ncalls + 1
  /\ allBoth' = (allBoth /\ t = "Both")
  /\ UNCHANGED <<pc, alg, src, visited, visited_nodes, visited_edges, q,
                 stack, cur, idx, heapVars, runs, steps, wraps, app, prev>>

\* A call of algorithm a with source s may start when no call runs.  A
\* later call (after Recall) repeats the earlier one on the unmodified graph.
MayCall(a, s) ==
  /\ pc = "idle"
  /\ alg = "none" \/ (alg = a /\ src = s)

\* `!visited.contains(&v)` of bfs and dfs_helper.
UnvisitedAlways(vs, v) == TRUE

Unvisited(vs, v) == v \notin vs

\* The edge event pushed on discovery: (u, v) in bfs, (curr, v) in dfs_helper.
DiscoveryEdgeReversed(u, v) == <<v, u>>

DiscoveryEdgeFromSource(u, v) == <<src, v>>

DiscoveryEdge(u, v) == <<u, v>>

\* --------------------------------------------------------------------- bfs
\* Graph::bfs, lines 136-143: the locals, with the source enqueued, marked
\* and emitted.
BeginBfs(s) ==
  /\ steps' = 0
  /\ alg' = "bfs" /\ src' = s
  /\ q' = <<s>>
  /\ visited' = {s}
  /\ visited_nodes' = <<s>>
  /\ visited_edges' = <<>>
  /\ pc' = "bfs_loop"
  /\ UNCHANGED <<graphVars, wraps, app, stack, cur, idx, heapVars, runs, prev>>

StartBfs(s) == MayCall("bfs", s) /\ BeginBfs(s)

\* while !q.is_empty() { let u = q.pop_front(); ... }
BfsPop ==
  /\ pc = "bfs_loop" /\ q # <<>>
  /\ steps' = steps + 1
  /\ cur' = Head(q)
  /\ q' = Tail(q)
  /\ idx' = 1
  /\ pc' = "bfs_scan"
  /\ UNCHANGED <<graphVars, wraps, app, alg, src, visited, visited_nodes, visited_edges,
                 stack, heapVars, runs, prev>>

\* One adjacency entry of the for-loop of bfs (or its end).
BfsScan ==
  /\ pc = "bfs_scan"
  /\ steps' = steps + 1
  /\ LET v_list == AdjOf(cur) IN
     IF idx > Len(v_list)
       THEN /\ pc' = "bfs_loop"
            /\ UNCHANGED <<visited, visited_nodes, visited_edges, q, idx>>
       ELSE LET v == v_list[idx][1] IN
            /\ idx' = idx + 1
            /\ pc' = pc
            /\ IF Unvisited(visited, v)
                 THEN /\ q' = Append(q, v)
                      /\ visited' = visited \cup {v}
                      /\ visited_nodes' = Append(visited_nodes, v)
                      /\ visited_edges' =
                           Append(visited_edges, DiscoveryEdge(cur, v))
                 ELSE UNCHANGED <<visited, visited_nodes, visited_edges, q>>
  /\ UNCHANGED <<graphVars, wraps, app, alg, src, stack, cur, heapVars, runs, prev>>

\* The queue is empty: bfs returns (visited_nodes, visited_edges).
BfsReturn ==
  /\ pc = "bfs_loop" /\ q = <<>>
  /\ steps' = steps + 1
  /\ pc' = "done"
  /\ runs' = runs + 1
  /\ UNCHANGED <<graphVars, wraps, app, alg, src, visited, visited_nodes, visited_edges,
                 q, stack, cur, idx, heapVars, prev>>

\* --------------------------------------------------------------------- dfs
\* dfs_helper's entry, lines 183-184: mark and emit curr, then start its loop.
HelperFrameSkipFirst(curr) == [curr |-> curr, idx |-> 2]

HelperFrame(curr) == [curr |-> curr, idx |-> 1]

\* dfs_helper returns false (line 196): `if self.dfs_helper(..) { return
\* true; }` in the caller does not fire and the caller's loop goes on.  The
\* call stack left when the innermost call returns above `below`.
HelperReturnsTrue(below) == <<>>

HelperReturns(below) == below

\* Graph::dfs: fresh locals and the first call of dfs_helper(s, ...).
BeginDfs(s) ==
  /\ steps' = 0
  /\ alg' = "dfs" /\ src' = s
  /\ visited' = {s}
  /\ visited_nodes' = <<s>>
  /\ visited_edges' = <<>>
  /\ stack' = <<HelperFrame(s)>>
  /\ pc' = "dfs_scan"
  /\ UNCHANGED <<graphVars, wraps, app, q, cur, idx, heapVars, runs, prev>>

StartDfs(s) == MayCall("dfs", s) /\ BeginDfs(s)

\* One adjacency entry of the for-loop of the innermost dfs_helper call, or
\* the end of that loop.  dfs_helper returns false from every call (the only
\* `return true` is behind a call that returned true), so a return always
\* resumes the caller's loop at its next entry.
DfsStep ==
  /\ pc = "dfs_scan" /\ stack # <<>>
  /\ steps' = steps + 1
  /\ LET top == stack[Len(stack)]
         v_list == AdjOf(top.curr)
         below == SubSeq(stack, 1, Len(stack) - 1)
     IN
     IF top.idx > Len(v_list)
       THEN /\ stack' = HelperReturns(below)
            /\ UNCHANGED <<visited, visited_nodes, visited_edges>>
       ELSE LET v == v_list[top.idx][1]
                advanced == Append(below, [top EXCEPT !.idx = top.idx + 1])
            IN
            IF Unvisited(visited, v)
              THEN /\ visited_edges' =
                        Append(visited_edges, DiscoveryEdge(top.curr, v))
                   /\ visited' = visited \cup {v}
                   /\ visited_nodes' = Append(visited_nodes, v)
                   /\ stack' = Append(advanced, HelperFrame(v))
              ELSE /\ stack' = advanced
                   /\ UNCHANGED <<visited, visited_nodes, visited_edges>>
  /\ pc' = pc
  /\ UNCHANGED <<graphVars, wraps, app, alg, src, q, cur, idx, heapVars, runs, prev>>

\* The outermost dfs_helper has returned: dfs returns
\* (visited_nodes, visited_edges).
DfsReturn ==
  /\ pc = "dfs_scan" /\ stack = <<>>
  /\ steps' = steps + 1
  /\ pc' = "done"
  /\ runs' = runs + 1
  /\ UNCHANGED <<graphVars, wraps, app, alg, src, visited, visited_nodes, visited_edges,
                 q, stack, cur, idx, heapVars, prev>>

\* ------------------------------------------------------------- BinaryHeap
\* impl Ord for State: cmp compares the costs only, reversed, so that the
\* max-heap of std pops a least cost.  a <= b in that order.
StateLeNatural(a, b) == a.cost <= b.cost

StateLe(a, b) == b.cost <= a.cost

\* BinaryHeap::sift_up(start, pos) of std: the element e is held out of the
\* Vec (the hole is at pos) and moves up while it is greater than its parent.
\* Positions are 1-based here: the parent of pos is pos \div 2.
RECURSIVE SiftUp(_, _, _, _)
SiftUp(h, start, pos, e) ==
  IF pos > start
    THEN LET par == pos \div 2 IN
         IF StateLe(e, h[par])
           THEN [h EXCEPT ![pos] = e]
           ELSE SiftUp([h EXCEPT ![pos] = h[par]], start, par, e)
    ELSE [h EXCEPT ![pos] = e]

\* BinaryHeap::sift_down_to_bottom(0) of std: the hole moves down to a leaf
\* along the greater children (the right one on a tie), then e is sifted up.
RECURSIVE SiftDownToBottom(_, _, _)
SiftDownToBottom(h, pos, e) ==
  LET child == 2 * pos IN
  IF child < Len(h)
    THEN LET c == IF StateLe(h[child], h[child + 1]) THEN child + 1 ELSE child
         IN SiftDownToBottom([h EXCEPT ![pos] = h[c]], c, e)
    ELSE IF child = Len(h)
      THEN SiftUp([h EXCEPT ![pos] = h[child]], 1, child, e)
      ELSE SiftUp(h, 1, pos, e)

\* pq.push(State { cost, node })
HeapPush(h, e) == SiftUp(Append(h, e), 1, Len(h) + 1, e)

\* pq.pop() on a non-empty heap: the State returned.
HeapTop(h) == h[1]

\* pq.pop() on a non-empty heap: the heap left.  std removes the last
\* element of the Vec, swaps it with the root and sifts it down.
HeapPop(h) ==
  LET item == h[Len(h)]
      rest == SubSeq(h, 1, Len(h) - 1)
  IN IF rest = <<>> THEN rest ELSE SiftDownToBottom(rest, 1, item)

\* i64, narrowed to IntBits bits: i64::MAX, i64::MIN and the value an
\* addition gives when it wraps (overflow checks off).  The range holds
\* every cost the algorithms form on the graphs with non-negative weights
\* that the specifications build.
IntMax == 2 ^ (IntBits - 1) - 1
IntMin == 0 - 2 ^ (IntBits - 1)
Overflows(x) == x > IntMax \/ x < IntMin
Wrap(x) == ((x - IntMin) % (2 ^ IntBits)) + IntMin

\* Weights of graphs that break dijkstra's precondition: small ones of
\* either sign, and the least i64.
NegWeights == {IntMin} \cup ((0 - 1)..1)

\* `*d.get(&v).unwrap_or(&i64::MAX)`: a missing entry reads as i64::MAX.
GetOrMax(d, v) == IF v \in DOMAIN d THEN d[v] ELSE IntMax

\* `dist.insert(s, 0);` on the new map, in dijkstra and in prim.
SeedDistMissing(s) == EmptyMap

SeedDist(s) == MapPut(EmptyMap, s, 0)

\* `c < *d.get(&v).unwrap_or(&i64::MAX)`
CostLessOrEqual(c, d, v) == c <= GetOrMax(d, v)

CostLess(c, d, v) == c < GetOrMax(d, v)

\* `c > *d.get(&v).unwrap_or(&i64::MAX)`
CostGreaterOrEqual(c, d, v) == c >= GetOrMax(d, v)

CostGreaterNever(c, d, v) == FALSE

CostGreater(c, d, v) == c > GetOrMax(d, v)

\* ---------------------------------------------------------------- dijkstra
\* `let cost = u.cost + w;`: the candidate distance through the accepted node.
RelaxCostEdgeOnly(c, w) == w

RelaxCost(c, w) == c + w

\* `parent.insert(v, u.node);` of dijkstra: the latest relaxation wins.
SetParentOnce(p, v, u) == IF v \in DOMAIN p THEN p ELSE MapPut(p, v, u)

SetParentSwapped(p, v, u) == MapPut(p, u, v)

SetParent(p, v, u) == MapPut(p, v, u)

\* `let mut processed: HashSet<i64> = HashSet::new();`: a local of the call.
ProcessedKept == processed

ProcessedNew == {}

\* Graph::dijkstra, lines 52-61.
BeginDijkstra(s) ==
  /\ steps' = 0
  /\ alg' = "dijkstra" /\ src' = s
  /\ dist' = SeedDist(s)
  /\ parent' = EmptyMap
  /\ visited_nodes' = <<>>
  /\ visited_edges' = <<>>
  /\ processed' = ProcessedNew
  /\ pq' = HeapPush(<<>>, [cost |-> 0, node |-> s])
  /\ pc' = "dijkstra_loop"
  /\ UNCHANGED <<graphVars, wraps, app, travVars, cur, idx, state, booked, total_cost,
                 runs, prev>>

StartDijkstra(s) == MayCall("dijkstra", s) /\ BeginDijkstra(s)

\* while !pq.is_empty() { let u = pq.pop(); ... } up to the for-loop:
\* a stale entry is dropped, a node accepted for the first time is emitted.
DijkstraPop ==
  /\ pc = "dijkstra_loop" /\ pq # <<>>
  /\ steps' = steps + 1
  /\ LET u == HeapTop(pq) IN
     /\ pq' = HeapPop(pq)
     /\ IF CostGreater(u.cost, dist, u.node)
          THEN /\ pc' = pc
               /\ UNCHANGED <<visited_nodes, processed, state, idx>>
          ELSE /\ IF u.node \notin processed
                    THEN /\ visited_nodes' = Append(visited_nodes, u.node)
                         /\ processed' = processed \cup {u.node}
                    ELSE UNCHANGED <<visited_nodes, processed>>
               /\ state' = u
               /\ idx' = 1
               /\ pc' = "dijkstra_scan"
  /\ UNCHANGED <<graphVars, wraps, app, travVars, alg, src, cur, visited_edges, dist,
                 parent, booked, total_cost, runs, prev>>

\* `visited_edges.push((u.node, v));`: the edge event of a relaxation.
RelaxationEdgeReversed(u, v) == <<v, u>>

RelaxationEdge(u, v) == <<u, v>>

\* The rest of the for-loop body of dijkstra once `cost` is computed.
Relax(v, cost) ==
  /\ idx' = idx + 1
  /\ pc' = pc
  /\ IF CostLess(cost, dist, v)
       THEN /\ dist' = MapPut(dist, v, cost)
            /\ parent' = SetParent(parent, v, state.node)
            /\ pq' = HeapPush(pq, [cost |-> cost, node |-> v])
            /\ visited_edges' =
                 Append(visited_edges, RelaxationEdge(state.node, v))
       ELSE UNCHANGED <<dist, parent, pq, visited_edges>>

\* One adjacency entry of the for-loop of dijkstra (or its end): relaxation.
\* When `u.cost + w` overflows, a build with overflow checks (the dev and
\* test profiles) panics and a build without them (release) goes on with the
\* wrapped sum; a run that has wrapped once is of the second kind.
DijkstraScan ==
  /\ pc = "dijkstra_scan"
  /\ steps' = steps + 1
  /\ LET v_list == AdjOf(state.node) IN
     IF idx > Len(v_list)
       THEN /\ pc' = "dijkstra_loop"
            /\ UNCHANGED <<dist, parent, pq, visited_edges, idx, wraps>>
       ELSE LET v == v_list[idx][1]
                w == v_list[idx][2]
                cost == RelaxCost(state.cost, w)
            IN
            IF Overflows(cost)
              THEN \/ /\ ~wraps
                      /\ pc' = "panic"
                      /\ UNCHANGED <<dist, parent, pq, visited_edges, idx,
                                     wraps>>
                   \/ /\ wraps' = TRUE
                      /\ Relax(v, Wrap(cost))
              ELSE /\ Relax(v, cost)
                   /\ UNCHANGED wraps
  /\ UNCHANGED <<graphVars, app, travVars, alg, src, cur, state,
                 visited_nodes, processed, booked, total_cost, runs, prev>>

\* The heap is empty: dijkstra returns
\* (visited_nodes, visited_edges, dist, parent).
DijkstraReturn ==
  /\ pc = "dijkstra_loop" /\ pq = <<>>
  /\ steps' = steps + 1
  /\ pc' = "done"
  /\ runs' = runs + 1
  /\ UNCHANGED <<graphVars, wraps, app, travVars, alg, src, visited_nodes, visited_edges,
                 cur, idx, heapVars, prev>>

\* -------------------------------------------------------------------- prim
\* `visited_edges.push((p, u));`: the tree edge of a finalized node, from its
\* recorded parent.
TreeEdgeReversed(p, u) == <<u, p>>

TreeEdge(p, u) == <<p, u>>

\* Graph::prim, lines 94-104.
BeginPrim(s) ==
  /\ steps' = 0
  /\ alg' = "prim" /\ src' = s
  /\ dist' = SeedDist(s)
  /\ booked' = {}
  /\ visited_nodes' = <<>>
  /\ visited_edges' = <<>>
  /\ parent' = EmptyMap
  /\ pq' = HeapPush(<<>>, [cost |-> 0, node |-> s])
  /\ total_cost' = 0
  /\ pc' = "prim_loop"
  /\ UNCHANGED <<graphVars, wraps, app, travVars, cur, idx, state, processed, runs, prev>>

StartPrim(s) == MayCall("prim", s) /\ BeginPrim(s)

\* while let Some(State { cost, node: u }) = pq.pop() { ... } up to the
\* for-loop: an entry of a booked node or a stale entry is dropped; otherwise
\* the node is finalized, and its tree edge and cost recorded.
PrimPop ==
  /\ pc = "prim_loop" /\ pq # <<>>
  /\ steps' = steps + 1
  /\ LET cost == HeapTop(pq).cost
         u == HeapTop(pq).node
     IN
     /\ pq' = HeapPop(pq)
     /\ IF u \in booked \/ CostGreater(cost, dist, u)
          THEN /\ pc' = pc
               /\ UNCHANGED <<booked, visited_nodes, visited_edges,
                              total_cost, state, idx>>
          ELSE /\ booked' = booked \cup {u}
               /\ visited_nodes' = Append(visited_nodes, u)
               /\ IF u \in DOMAIN parent
                    THEN /\ visited_edges' =
                              Append(visited_edges, TreeEdge(parent[u], u))
                         /\ total_cost' = total_cost + cost
                    ELSE UNCHANGED <<visited_edges, total_cost>>
               /\ state' = HeapTop(pq)
               /\ idx' = 1
               /\ pc' = "prim_scan"
  /\ UNCHANGED <<graphVars, wraps, app, travVars, alg, src, cur, dist, parent, processed,
                 runs, prev>>

\* One adjacency entry of the for-loop of prim (or its end).
PrimScan ==
  /\ pc = "prim_scan"
  /\ steps' = steps + 1
  /\ LET v_list == AdjOf(state.node) IN
     IF idx > Len(v_list)
       THEN /\ pc' = "prim_loop"
            /\ UNCHANGED <<dist, parent, pq, idx>>
       ELSE LET v == v_list[idx][1]
                w == v_list[idx][2]
            IN
            /\ idx' = idx + 1
            /\ pc' = pc
            /\ IF v \notin booked /\ CostLess(w, dist, v)
                 THEN /\ dist' = MapPut(dist, v, w)
                      /\ parent' = MapPut(parent, v, state.node)
                      /\ pq' = HeapPush(pq, [cost |-> w, node |-> v])
                 ELSE UNCHANGED <<dist, parent, pq>>
  /\ UNCHANGED <<graphVars, wraps, app, travVars, alg, src, cur, state, visited_nodes,
                 visited_edges, processed, booked, total_cost, runs, prev>>

\* The heap is empty: prim returns (visited_nodes, visited_edges, total_cost).
PrimReturn ==
  /\ pc = "prim_loop" /\ pq = <<>>
  /\ steps' = steps + 1
  /\ pc' = "done"
  /\ runs' = runs + 1
  /\ UNCHANGED <<graphVars, wraps, app, travVars, alg, src, visited_nodes, visited_edges,
                 cur, idx, heapVars, prev>>

\* ------------------------------------------------------ path reconstruction
\* App::draw, lines 252-258: `while let Some(&prev) = parent.get(&current)`
\* pushes prev and moves to it.  The path is returned as walked, from the
\* node back to the end of the chain.  A chain of more than `fuel` steps has
\* come back to a node it left, and the loop of the source never ends:
\* that outcome is <<>>.
RECURSIVE WalkBack(_, _, _)
WalkBack(p, current, fuel) ==
  IF current \notin DOMAIN p
    THEN <<current>>
    ELSE IF fuel = 0
      THEN <<>>
      ELSE LET rest == WalkBack(p, p[current], fuel - 1)
           IN IF rest = <<>> THEN <<>> ELSE <<current>> \o rest

PathTo(node) == WalkBack(parent, node, Cardinality(DOMAIN parent))

\* ------------------------------------------------------------ repeated call
\* The tuple the call that has just finished returned.
Returned ==
  CASE alg = "dijkstra" -> <<visited_nodes, visited_edges, dist, parent>>
    [] alg = "prim" -> <<visited_nodes, visited_edges, total_cost>>
    [] OTHER -> <<visited_nodes, visited_edges>>

\* The caller keeps what the call returned and is ready to call again; the
\* graph is left as it is.
Recall ==
  /\ pc = "done"
  /\ runs < MaxRuns
  /\ prev' = Returned
  /\ pc' = "idle"
  /\ UNCHANGED <<graphVars, wraps, app, travVars, alg, src, visited_nodes, visited_edges,
                 cur, idx, heapVars, runs, steps>>

\* ---------------------------------------------------------- specifications
BuildStep == \E u \in Nodes, v \in Nodes, w \in Weights, t \in EdgeTypes :
               AddEdge(u, v, w, t)

\* dfs and bfs read no weight (`for &(v, _) in v_list`): one weight suffices.
BuildStepUnweighted == \E u \in Nodes, v \in Nodes, t \in EdgeTypes :
                         AddEdge(u, v, MaxWeight, t)

NextTraversal ==
  \/ BuildStepUnweighted
  \/ \E s \in Nodes : StartBfs(s)
  \/ BfsPop
  \/ BfsScan
  \/ BfsReturn
  \/ \E s \in Nodes : StartDfs(s)
  \/ DfsStep
  \/ DfsReturn

SpecTraversal == Init /\ [][NextTraversal]_vars

\* The graph under construction: add_edge calls only.
NextBuild == BuildStep

SpecBuild == Init /\ [][NextBuild]_vars

Next ==
  \/ BuildStep
  \/ \E s \in Nodes : StartBfs(s)
  \/ BfsPop
  \/ BfsScan
  \/ BfsReturn
  \/ \E s \in Nodes : StartDfs(s)
  \/ DfsStep
  \/ DfsReturn
  \/ \E s \in Nodes : StartDijkstra(s)
  \/ DijkstraPop
  \/ DijkstraScan
  \/ DijkstraReturn
  \/ \E s \in Nodes : StartPrim(s)
  \/ PrimPop
  \/ PrimScan
  \/ PrimReturn

Spec == Init /\ [][Next]_vars

\* The same, with every call made MaxRuns times on the unmodified graph.
NextRepeat ==
  \/ Next
  \/ Recall

SpecRepeat == Init /\ [][NextRepeat]_vars

NextDijkstra ==
  \/ BuildStep
  \/ \E s \in Nodes : StartDijkstra(s)
  \/ DijkstraPop
  \/ DijkstraScan
  \/ DijkstraReturn

SpecDijkstra == Init /\ [][NextDijkstra]_vars

NextPrim ==
  \/ BuildStep
  \/ \E s \in Nodes : StartPrim(s)
  \/ PrimPop
  \/ PrimScan
  \/ PrimReturn

SpecPrim == Init /\ [][NextPrim]_vars

\* App::run, lines 166-170: the five Both edges among the nodes 1..5 (the
\* sixth call, add_edge(1, 6, 6, Both), hangs node 6 on node 1).
Scenario3Calls ==
  << <<1, 2, 2, "Both">>, <<1, 3, 3, "Both">>, <<3, 4, 5, "Both">>,
     <<3, 5, 4, "Both">>, <<5, 4, 1, "Both">> >>

\* The two heap-driven algorithms, dijkstra and prim.
NextHeap ==
  \/ BuildStep
  \/ \E s \in Nodes : StartDijkstra(s)
  \/ DijkstraPop
  \/ DijkstraScan
  \/ DijkstraReturn
  \/ \E s \in Nodes : StartPrim(s)
  \/ PrimPop
  \/ PrimScan
  \/ PrimReturn

SpecHeap == Init /\ [][NextHeap]_vars

\* dijkstra on graphs that break its precondition: weights may be negative.
\* A call that has started takes its next step until it returns or panics.
BuildNegative == \E u \in Nodes, v \in Nodes, w \in NegWeights, t \in EdgeTypes :
                   ncalls < MaxNegEdges /\ AddEdge(u, v, w, t)

NextNegative ==
  \/ BuildNegative
  \/ \E s \in Nodes : StartDijkstra(s)
  \/ DijkstraPop
  \/ DijkstraScan
  \/ DijkstraReturn

SpecNegative ==
  /\ Init /\ [][NextNegative]_vars
  /\ WF_vars(DijkstraPop) /\ WF_vars(DijkstraScan) /\ WF_vars(DijkstraReturn)

\* tests/graph_test.rs: the add_edge calls of runs_main_logic_without_panic.
ScenarioCalls ==
  << <<1, 2, 10, "Single">>, <<2, 4, 10, "Both">>,
     <<3, 4, 10, "Single">>, <<4, 3, 10, "Single">> >>

RECURSIVE BuildFrom(_, _)
BuildFrom(a, calls) ==
  IF calls = <<>> THEN a
  ELSE LET c == Head(calls)
       IN BuildFrom(AddEdgeTo(a, c[1], c[2], c[3], c[4]), Tail(calls))

\* The graph of the test, built; no algorithm has been called yet.
InitScenario ==
  /\ adj = BuildFrom(GraphNew, ScenarioCalls)
  /\ ncalls = Len(ScenarioCalls)
  /\ allBoth = FALSE
  /\ NoCall

\* The four calls of the test, from node 1 as there and from the other nodes.
NextScenario ==
  \/ \E s \in DOMAIN adj : StartBfs(s)
  \/ BfsPop
  \/ BfsScan
  \/ BfsReturn
  \/ \E s \in DOMAIN adj : StartDfs(s)
  \/ DfsStep
  \/ DfsReturn
  \/ \E s \in DOMAIN adj : StartDijkstra(s)
  \/ DijkstraPop
  \/ DijkstraScan
  \/ DijkstraReturn
  \/ \E s \in DOMAIN adj : StartPrim(s)
  \/ PrimPop
  \/ PrimScan
  \/ PrimReturn

SpecScenario == InitScenario /\ [][NextScenario]_vars

\* The graph of Scenario3Calls, built; no algorithm has been called yet.
InitScenario3 ==
  /\ adj = BuildFrom(GraphNew, Scenario3Calls)
  /\ ncalls = Len(Scenario3Calls)
  /\ allBoth = TRUE
  /\ NoCall

\* prim on the graphs built call by call and on the graph of Scenario3Calls.
SpecPrimCases == (Init \/ InitScenario3) /\ [][NextPrim]_vars

\* -------------------------------------------------------- reference notions
\* The set of elements of a sequence, and absence of repetition.
Range(f) == {f[i] : i \in DOMAIN f}
NoDup(f) == \A i, j \in DOMAIN f : f[i] = f[j] => i = j

\* (u -> v) is an adjacency entry of the graph; the weights of such entries.
HasEntry(u, v) == u \in DOMAIN adj /\ \E i \in DOMAIN adj[u] : adj[u][i][1] = v
EntryWeights(u, v) ==
  IF u \in DOMAIN adj
    THEN {adj[u][i][2] : i \in {j \in DOMAIN adj[u] : adj[u][j][1] = v}}
    ELSE {}

\* Every node that occurs in the graph, as a key or as a neighbour.
GraphNodes ==
  (DOMAIN adj) \cup UNION {{adj[u][i][1] : i \in DOMAIN adj[u]} : u \in DOMAIN adj}

\* The nodes reachable from s along adjacency entries (s included).
RECURSIVE ReachFrom(_)
ReachFrom(S) ==
  LET T == S \cup {v \in GraphNodes : \E u \in S : HasEntry(u, v)}
  IN IF T = S THEN S ELSE ReachFrom(T)
Reachable(s) == ReachFrom({s})

Traversing == alg \in {"dfs", "bfs"}

\* ------------------------------------------------------------------ claims
\* C1: the node sequence of dfs(source) and of bfs(source) starts with the
\* source, holds no node twice and only reachable nodes at every moment of
\* the call, and holds exactly the reachable nodes when the call returns.
C1_TraversalVisitsReachable ==
  Traversing =>
    /\ visited_nodes # <<>> /\ visited_nodes[1] = src
    /\ NoDup(visited_nodes)
    /\ Range(visited_nodes) \subseteq Reachable(src)
    /\ pc = "done" => Range(visited_nodes) = Reachable(src)

\* A dfs call has returned on a graph where the source reaches one other
\* node, which has an entry back to the source, and a third node of the graph
\* is out of reach.
C1_Witness ==
  /\ pc = "done" /\ alg = "dfs"
  /\ Len(visited_nodes) = 2
  /\ GraphNodes \ Reachable(src) # {}
  /\ HasEntry(visited_nodes[2], src)

\* C2: every edge event (u, v) of a dfs or bfs trace is appended in the step
\* in which v is visited for the first time (v was not visited before the
\* step and is the node emitted by it), (u -> v) is an adjacency entry, and
\* u was emitted earlier.
C2_EdgeEventIsDiscovery ==
  [][ (Traversing /\ Len(visited_edges') > Len(visited_edges)) =>
        LET e == visited_edges'[Len(visited_edges')] IN
        /\ visited_edges' = Append(visited_edges, e)
        /\ e[2] \notin visited /\ e[2] \notin Range(visited_nodes)
        /\ visited' = visited \cup {e[2]}
        /\ visited_nodes' = Append(visited_nodes, e[2])
        /\ HasEntry(e[1], e[2])
        /\ e[1] \in Range(visited_nodes) ]_vars

\* A bfs call has returned with two edge events that have different tails,
\* after skipping at least one entry that led to a visited node.
C2_Witness ==
  /\ pc = "done" /\ alg = "bfs"
  /\ Len(visited_edges) = 2
  /\ visited_edges[1][1] # visited_edges[2][1]
  /\ \E u \in visited : HasEntry(u, src)

\* The paths from s to t that repeat no node, as node sequences; with
\* non-negative weights a least-weight path is among them.  The weight of a
\* path takes the lightest entry between consecutive nodes.
SimplePaths(s, t) ==
  {p \in UNION {[1..n -> Nodes] : n \in 1..MaxNode} :
     /\ p[1] = s /\ p[Len(p)] = t
     /\ NoDup(p)
     /\ \A i \in 1..(Len(p) - 1) : HasEntry(p[i], p[i + 1])}

Least(S) == CHOOSE x \in S : \A y \in S : x <= y

RECURSIVE PathWeight(_)
PathWeight(p) ==
  IF Len(p) <= 1 THEN 0
  ELSE Least(EntryWeights(p[1], p[2])) + PathWeight(Tail(p))

MinDist(s, t) == Least({PathWeight(p) : p \in SimplePaths(s, t)})

\* C3: with non-negative weights, the distance map dijkstra(source) returns
\* gives the source 0 and every reached node the least weight of a path
\* from the source to it.
C3_DijkstraDistancesAreMinimal ==
  (pc = "done" /\ alg = "dijkstra") =>
    /\ src \in DOMAIN dist /\ dist[src] = 0
    /\ \A v \in DOMAIN dist :
         /\ SimplePaths(src, v) # {}
         /\ dist[v] = MinDist(src, v)

\* dijkstra has returned after a node's distance was lowered twice: the
\* direct entry from the source is heavier than the path through the third
\* node.
C3_Witness ==
  /\ pc = "done" /\ alg = "dijkstra"
  /\ \E v \in DOMAIN dist :
       /\ HasEntry(src, v)
       /\ dist[v] < Least(EntryWeights(src, v))
       /\ Len(SelectSeq(visited_edges, LAMBDA e : e[2] = v)) = 2

\* C4: with non-negative weights, for every node v reached by
\* dijkstra(source) the walk along the returned predecessor map from v ends,
\* and ends at the source, which has no predecessor; it repeats no node;
\* every step goes back over an adjacency entry whose weight is the
\* difference of the two returned distances, so the walked path weighs
\* dist[v] and has one step less than it has nodes.
C4_PredecessorWalkReachesSource ==
  (pc = "done" /\ alg = "dijkstra") =>
    /\ src \notin DOMAIN parent
    /\ DOMAIN parent \subseteq DOMAIN dist
    /\ \A v \in DOMAIN dist :
         LET path == PathTo(v) IN
         /\ path # <<>>
         /\ path[1] = v /\ path[Len(path)] = src
         /\ NoDup(path)
         /\ \A i \in 1..(Len(path) - 1) :
              (dist[path[i]] - dist[path[i + 1]])
                 \in EntryWeights(path[i + 1], path[i])
         /\ PathWeight([i \in 1..Len(path) |-> path[Len(path) + 1 - i]])
              = dist[v]

\* dijkstra has returned on a graph with a zero-weight cycle through the
\* source, and some node is two predecessor steps away from the source
\* after its predecessor was overwritten.
C4_Witness ==
  /\ pc = "done" /\ alg = "dijkstra"
  /\ \E u \in DOMAIN dist : u # src /\ dist[u] = 0 /\ 0 \in EntryWeights(u, src)
  /\ \E v \in DOMAIN dist :
       /\ Len(PathTo(v)) = 3
       /\ Len(SelectSeq(visited_edges, LAMBDA e : e[2] = v)) = 2

\* All adjacency entries whose endpoints both lie in S, as (u, v, w) triples.
EntriesWithin(S) ==
  {e \in UNION {{<<u, adj[u][i][1], adj[u][i][2]>> : i \in DOMAIN adj[u]} :
                  u \in S \cap DOMAIN adj} : e[2] \in S}

\* Kruskal's algorithm on an edge set: the lightest remaining edge is taken
\* when it joins two components.
RECURSIVE Kruskal(_, _, _)
Kruskal(E, comp, total) ==
  IF E = {} THEN total
  ELSE LET e == CHOOSE x \in E : \A y \in E : x[3] <= y[3]
           joined == [n \in DOMAIN comp |->
                        IF comp[n] = comp[e[2]] THEN comp[e[1]] ELSE comp[n]]
       IN IF comp[e[1]] # comp[e[2]]
            THEN Kruskal(E \ {e}, joined, total + e[3])
            ELSE Kruskal(E \ {e}, comp, total)

KruskalWeight(S) == Kruskal(EntriesWithin(S), [n \in S |-> n], 0)

\* The nodes joined to s by adjacency entries taken in either direction.
RECURSIVE JoinedFrom(_)
JoinedFrom(S) ==
  LET T == S \cup {v \in GraphNodes : \E u \in S : HasEntry(u, v) \/ HasEntry(v, u)}
  IN IF T = S THEN S ELSE JoinedFrom(T)
Component(s) == JoinedFrom({s})

RECURSIVE SumOver(_, _)
SumOver(f, S) ==
  IF S = {} THEN 0
  ELSE LET x == CHOOSE y \in S : TRUE IN f[x] + SumOver(f, S \ {x})

\* C5: on a connected graph built by Both insertions only, the total_cost
\* prim(source) returns is the weight Kruskal's algorithm finds on the same
\* entries.
C5_PrimCostIsMstWeight ==
  (pc = "done" /\ alg = "prim" /\ allBoth /\ GraphNodes \subseteq Reachable(src)) =>
    total_cost = KruskalWeight(GraphNodes)

\* prim has returned on a triangle of Both edges with two equal weights and
\* a heavier third edge, which the tree leaves out.
C5_Witness ==
  /\ pc = "done" /\ alg = "prim" /\ allBoth /\ src = 1
  /\ EntryWeights(1, 2) = {1} /\ EntryWeights(2, 3) = {1}
  /\ EntryWeights(1, 3) = {2}
  /\ total_cost = 2

\* C6 as stated: the node sequence of prim(source) has no duplicate and is
\* a permutation of the source's connected component.
C6_Original ==
  (pc = "done" /\ alg = "prim") =>
    /\ NoDup(visited_nodes)
    /\ Range(visited_nodes) = Component(src)

\* C6, amended: the node sequence of prim(source) has no duplicate and is a
\* permutation of the nodes reachable from the source along adjacency
\* entries (its connected component when all insertions were Both); only
\* those are spanned: there is one tree edge per node after the source, both
\* ends of it reachable, and total_cost is the sum of the weights of these
\* tree edges, which is the weight of a minimum spanning tree of the
\* component when all insertions were Both.
C6_PrimSpansReachable ==
  (pc = "done" /\ alg = "prim") =>
    /\ NoDup(visited_nodes)
    /\ Range(visited_nodes) = Reachable(src)
    /\ Len(visited_edges) = Len(visited_nodes) - 1
    /\ \A k \in DOMAIN visited_edges :
         /\ visited_edges[k][2] = visited_nodes[k + 1]
         /\ visited_edges[k][1] \in Reachable(src)
         /\ dist[visited_edges[k][2]]
              \in EntryWeights(visited_edges[k][1], visited_edges[k][2])
    /\ total_cost = SumOver(dist, Range(visited_nodes) \ {src})
    /\ allBoth =>
         /\ Reachable(src) = Component(src)
         /\ total_cost = KruskalWeight(Reachable(src))

\* prim has returned from a source that reaches one other node over a
\* weighted entry, while a third node has a Single entry into the source.
C6_Witness ==
  /\ pc = "done" /\ alg = "prim"
  /\ Len(visited_nodes) = 2 /\ total_cost > 0
  /\ \E n \in GraphNodes \ Reachable(src) : HasEntry(n, src)

IsPrefix(a, b) == Len(a) <= Len(b) /\ a = SubSeq(b, 1, Len(a))

\* C8 as stated: on the graph of the test, dfs(1) visits 1, then 2 over
\* (1, 2), then 4 over (2, 4), and node 3, out of reach of 1, is absent.
C8_Original ==
  (pc = "done" /\ alg = "dfs" /\ src = 1) =>
    /\ visited_nodes = <<1, 2, 4>>
    /\ visited_edges = << <<1, 2>>, <<2, 4>> >>
    /\ 3 \notin Reachable(1)
    /\ 3 \notin Range(visited_nodes)

\* C8, amended: on the graph of the test, dfs(1) visits 1, then 2 over
\* (1, 2), then 4 over (2, 4), then 3 over (4, 3): the call
\* add_edge(4, 3, 10, Single) puts node 3 in reach of node 1.
C8_DfsScenarioTrace ==
  (alg = "dfs" /\ src = 1) =>
    /\ IsPrefix(visited_nodes, <<1, 2, 4, 3>>)
    /\ IsPrefix(visited_edges, << <<1, 2>>, <<2, 4>>, <<4, 3>> >>)
    /\ 3 \in Reachable(1)
    /\ pc = "done" =>
         /\ visited_nodes = <<1, 2, 4, 3>>
         /\ visited_edges = << <<1, 2>>, <<2, 4>>, <<4, 3>> >>

\* dfs(1) has returned on the graph of the test.
C8_Witness ==
  /\ pc = "done" /\ alg = "dfs" /\ src = 1
  /\ adj = BuildFrom(GraphNew, ScenarioCalls)
  /\ Len(visited_nodes) = Cardinality(GraphNodes)

\* C9: from a source without adjacency entries (in the graph as a neighbour
\* only, or not in it at all) each of dfs, bfs, dijkstra and prim emits the
\* source alone and no edge, and returns just that; prim's total_cost is 0,
\* dijkstra's distance map is {source: 0} and its predecessor map is empty.
C9_IsolatedSource ==
  (alg # "none" /\ src \notin DOMAIN adj) =>
    /\ IsPrefix(visited_nodes, <<src>>)
    /\ visited_edges = <<>>
    /\ Len(q) <= 1 /\ Len(stack) <= 1 /\ Len(pq) <= 1
    /\ pc = "done" =>
         /\ visited_nodes = <<src>>
         /\ alg = "prim" => total_cost = 0
         /\ alg = "dijkstra" =>
              /\ DOMAIN dist = {src} /\ dist[src] = 0
              /\ parent = EmptyMap

\* dijkstra has returned from a source that is no node of a non-empty graph.
C9_Witness ==
  /\ pc = "done" /\ alg = "dijkstra"
  /\ ncalls = MaxEdges /\ src \notin GraphNodes

\* A measure of the work a running call has left.  Every node still to be
\* discovered (bfs, dfs) and every unit by which a best-known value can
\* still drop (dijkstra, prim) outweighs a worklist entry, and a worklist
\* entry outweighs the scan of one adjacency list.
Running == pc \notin {"idle", "done", "panic"}
Universe == GraphNodes \cup {src}
LongestList ==
  IF DOMAIN adj = {} THEN 0
  ELSE CHOOSE n \in {Len(adj[u]) : u \in DOMAIN adj} :
         \A u \in DOMAIN adj : Len(adj[u]) <= n
EntryUnit == LongestList + 2
DropUnit == EntryUnit + 1
Unreached == 1 + SumOver([e \in EntriesWithin(Universe) |-> e[3]],
                         EntriesWithin(Universe))
BestKnown == [v \in Universe |-> IF v \in DOMAIN dist THEN dist[v] ELSE Unreached]
ScanLeft(u, i) == Len(AdjOf(u)) - i + 2
Measure ==
  CASE pc \in {"bfs_loop", "bfs_scan"} ->
         1 + Cardinality(Universe \ visited) * DropUnit + Len(q) * EntryUnit
           + (IF pc = "bfs_scan" THEN ScanLeft(cur, idx) ELSE 0)
    [] pc = "dfs_scan" ->
         1 + Cardinality(Universe \ visited) * DropUnit
           + SumOver([i \in DOMAIN stack |-> ScanLeft(stack[i].curr, stack[i].idx)],
                     DOMAIN stack)
    [] pc \in {"dijkstra_loop", "dijkstra_scan", "prim_loop", "prim_scan"} ->
         1 + SumOver(BestKnown, Universe) * DropUnit + Len(pq) * EntryUnit
           + (IF pc \in {"dijkstra_scan", "prim_scan"}
                THEN ScanLeft(state.node, idx) ELSE 0)
    [] OTHER -> 0

\* The measure of a call right after its Start step.
StartMeasure ==
  CASE alg = "bfs" ->
         1 + (Cardinality(Universe) - 1) * DropUnit + EntryUnit
    [] alg = "dfs" ->
         1 + (Cardinality(Universe) - 1) * DropUnit + ScanLeft(src, 1)
    [] alg \in {"dijkstra", "prim"} ->
         1 + (Cardinality(Universe) - 1) * Unreached * DropUnit + EntryUnit
    [] OTHER -> 0

C11_Original ==
  /\ [](pc # "panic")
  /\ (alg = "dijkstra") ~> (pc = "done")

\* The number of entries (v, w) in the list of u.
CountEntry(u, v, w) ==
  Cardinality({i \in DOMAIN AdjOf(u) : AdjOf(u)[i] = <<v, w>>})

\* Every entry has its mirror: (v, w) is as often in u's list as (u, w) is in
\* v's, and a self-loop of u is in u's list an even number of times.
Mirrored ==
  \A u \in GraphNodes, v \in GraphNodes, w \in Weights :
    /\ CountEntry(u, v, w) = CountEntry(v, u, w)
    /\ u = v => CountEntry(u, u, w) % 2 = 0

\* C12: a step that changes the adjacency lists is one add_edge call: every
\* list that existed is a prefix of what it is afterwards (nothing removed,
\* changed or reordered, duplicates kept), and either one entry (v, w) is
\* new at the end of u's list (Single), or (v, w) is new at the end of u's
\* list and (u, w) at the end of v's (Both), two entries at the end of the
\* same list when u = v; no other list changes.  While only Both calls have
\* been made the lists are mirrored.  The call never fails: while the graph
\* is being built, add_edge can be called with every argument.
C12_AddEdgeAppends ==
  /\ [][ adj' # adj =>
           /\ DOMAIN adj \subseteq DOMAIN adj'
           /\ \A x \in DOMAIN adj : IsPrefix(adj[x], adj'[x])
           /\ \E u \in Nodes, v \in Nodes, w \in Weights :
                \/ /\ DOMAIN adj' = DOMAIN adj \cup {u}
                   /\ adj'[u] = AdjOf(u) \o << <<v, w>> >>
                   /\ \A x \in DOMAIN adj \ {u} : adj'[x] = adj[x]
                \/ /\ u # v
                   /\ DOMAIN adj' = DOMAIN adj \cup {u, v}
                   /\ adj'[u] = AdjOf(u) \o << <<v, w>> >>
                   /\ adj'[v] = AdjOf(v) \o << <<u, w>> >>
                   /\ \A x \in DOMAIN adj \ {u, v} : adj'[x] = adj[x]
                \/ /\ u = v
                   /\ DOMAIN adj' = DOMAIN adj \cup {u}
                   /\ adj'[u] = AdjOf(u) \o << <<u, w>>, <<u, w>> >>
                   /\ \A x \in DOMAIN adj \ {u} : adj'[x] = adj[x] ]_vars
  /\ [](allBoth => Mirrored)
  /\ [](ncalls < MaxEdges =>
          \A u \in Nodes, v \in Nodes, w \in Weights, t \in EdgeTypes :
            ENABLED AddEdge(u, v, w, t))

\* Three calls have been made: a Both self-loop put two equal entries in one
\* list, and the same Single edge was then inserted twice after them.
C12_Witness ==
  /\ ncalls = MaxEdges
  /\ \E u \in DOMAIN adj :
       /\ Len(adj[u]) = 4
       /\ adj[u][1] = adj[u][2] /\ adj[u][1][1] = u
       /\ adj[u][3] = adj[u][4] /\ adj[u][3][1] # u

\* ------------------------------------------------------- nodes() and edges()
\* The orders in which a HashMap or HashSet may hand out the elements of S:
\* the iteration order is not specified.
IterationOrders(S) == {p \in [1..Cardinality(S) -> S] : Range(p) = S}

\* Graph::edges: `let key = if u <= v { (u, v) } else { (v, u) };`
EdgeKeyAsIs(u, v) == <<u, v>>

EdgeKey(u, v) == IF u <= v THEN <<u, v>> ELSE <<v, u>>

\* Graph::edges, the inner loop over the list of u from entry i on:
\* `if seen.insert(key) { result.push((u, v, w)); }`
RECURSIVE EdgesOfList(_, _, _)
EdgesOfList(u, acc, i) ==
  IF i > Len(adj[u]) THEN acc
  ELSE LET v == adj[u][i][1]
           w == adj[u][i][2]
           key == EdgeKey(u, v)
       IN IF key \in acc.seen
            THEN EdgesOfList(u, acc, i + 1)
            ELSE EdgesOfList(u, [result |-> Append(acc.result, <<u, v, w>>),
                                 seen |-> acc.seen \cup {key}], i + 1)

\* Graph::edges, the outer loop `for (&u, v_list) in &self.adj` taking the
\* keys in the given order.
RECURSIVE EdgesFrom(_, _)
EdgesFrom(keys, acc) ==
  IF keys = <<>> THEN acc.result
  ELSE EdgesFrom(Tail(keys), EdgesOfList(Head(keys), acc, 1))

Edges(keys) == EdgesFrom(keys, [result |-> <<>>, seen |-> {}])

\* App::init_graph: the displayed graph gets the nodes of nodes(), sorted (or
\* the lone anchor node 1 when there are none), and the edges of edges()
\* whose two ends are displayed nodes; then the application enters its loop.
InitGraph ==
  /\ pc = "idle" /\ alg = "none"
  /\ \E nodes \in IterationOrders(GraphNodes), keys \in IterationOrders(DOMAIN adj) :
       app' = [app EXCEPT !.graph =
                 IF nodes = <<>>
                   THEN [nodes |-> <<1>>, edges |-> <<>>]
                   ELSE [nodes |-> SortSeq(nodes, LAMBDA a, b : a < b),
                         edges |-> SelectSeq(Edges(keys),
                                     LAMBDA e : e[1] \in Range(nodes)
                                                 /\ e[2] \in Range(nodes))]]
  /\ pc' = "app"
  /\ UNCHANGED <<graphVars, wraps, alg, src, visited, visited_nodes,
                 visited_edges, q, stack, cur, idx, heapVars, runs, steps,
                 prev>>

NextInitGraph ==
  \/ BuildStep
  \/ InitGraph

SpecInitGraph == Init /\ [][NextInitGraph]_vars

\* The unordered endpoint pairs that have an adjacency entry.
EntryPairs ==
  {{u, v} : <<u, v>> \in {p \in GraphNodes \X GraphNodes : HasEntry(p[1], p[2])}}

\* C13: edges() returns one triple for each unordered endpoint pair that has
\* an adjacency entry and no pair twice (the two mirrored entries of a Both
\* insertion give one triple), so every inserted edge is represented by the
\* triple of its pair; the weight of a triple is the weight of an adjacency
\* entry between its two endpoints (of an entry from its first to its second
\* endpoint).  It is checked on what init_graph displays.
C13_EdgesOnePerPair ==
  pc = "app" =>
    LET es == app.graph.edges IN
    /\ \A i, j \in DOMAIN es :
         {es[i][1], es[i][2]} = {es[j][1], es[j][2]} => i = j
    /\ {{es[i][1], es[i][2]} : i \in DOMAIN es} = EntryPairs
    /\ \A i \in DOMAIN es :
         /\ es[i][3] \in EntryWeights(es[i][1], es[i][2])
                           \cup EntryWeights(es[i][2], es[i][1])
         /\ es[i][3] \in EntryWeights(es[i][1], es[i][2])

\* init_graph has run on a graph where one pair of nodes has entries of
\* different weights in the two directions, and edges() met the higher node's
\* list first: the triple is (higher, lower, w) with the weight of that
\* direction; a second pair has mirrored entries and one triple.
C13_Witness ==
  /\ pc = "app"
  /\ LET es == app.graph.edges IN
     /\ Len(es) = 2
     /\ \E i \in DOMAIN es :
          /\ es[i][1] > es[i][2]
          /\ EntryWeights(es[i][2], es[i][1]) # {}
          /\ es[i][3] \notin EntryWeights(es[i][2], es[i][1])
     /\ \E i \in DOMAIN es :
          /\ es[i][1] # es[i][2]
          /\ EntryWeights(es[i][2], es[i][1]) = EntryWeights(es[i][1], es[i][2])

\* C14: with non-negative weights, when dijkstra(source) has returned, the
\* keys of the distance map, the nodes of the node sequence and the nodes
\* reachable from the source are the same set, the node sequence holds no
\* node twice, and the keys of the predecessor map are that set without the
\* source: an unreached node has an entry in neither map.  During the call
\* the emitted nodes have distances, the nodes with distances are reachable,
\* and the predecessor map has the keys of the distance map but the source.
C14_DijkstraKeySets ==
  alg = "dijkstra" =>
    /\ NoDup(visited_nodes)
    /\ Range(visited_nodes) \subseteq DOMAIN dist
    /\ DOMAIN dist \subseteq Reachable(src)
    /\ DOMAIN parent = DOMAIN dist \ {src}
    /\ pc = "done" =>
         /\ DOMAIN dist = Range(visited_nodes)
         /\ DOMAIN dist = Reachable(src)
         /\ DOMAIN parent = Reachable(src) \ {src}
         /\ \A n \in GraphNodes \ Reachable(src) :
              n \notin DOMAIN dist /\ n \notin DOMAIN parent

\* dijkstra has returned from a source that reaches one other node and has
\* an entry back from it, while a third node, with a Single entry into the
\* source, is unreached.
C14_Witness ==
  /\ pc = "done" /\ alg = "dijkstra"
  /\ Cardinality(DOMAIN dist) = 2
  /\ \E v \in DOMAIN parent : HasEntry(v, src)
  /\ \E n \in GraphNodes \ DOMAIN dist : HasEntry(n, src)

\* C15: the edge sequence of prim holds the tree edges in construction
\* order.  At every moment of a call there is one edge per emitted node but
\* the source, which comes first and has no edge; the k-th edge is
\* (parent, n) with n the (k+1)-th node of the node sequence and parent a
\* node emitted before n, its recorded parent, over an adjacency entry
\* parent -> n; total_cost is the sum of the weights at which the nodes
\* after the source were finalized, each the weight of such an entry.  On
\* the graph (1,2,2),(1,3,3),(3,4,5),(3,5,4),(5,4,1), all Both, prim(1)
\* returns the edges 1-2, 1-3, 3-5, 5-4 and total_cost 10.
C15_PrimEdgesAreTreeEdges ==
  alg = "prim" =>
    /\ visited_nodes # <<>> => visited_nodes[1] = src
    /\ Len(visited_edges) = (IF visited_nodes = <<>> THEN 0
                             ELSE Len(visited_nodes) - 1)
    /\ \A k \in DOMAIN visited_edges :
         LET n == visited_nodes[k + 1] IN
         /\ visited_edges[k] = <<parent[n], n>>
         /\ n # src
         /\ \E j \in 1..k : visited_nodes[j] = parent[n]
         /\ dist[n] \in EntryWeights(parent[n], n)
    /\ src \notin DOMAIN parent
    /\ total_cost = SumOver(dist, Range(visited_nodes) \ {src})
    /\ (pc = "done" /\ src = 1 /\ adj = BuildFrom(GraphNew, Scenario3Calls)) =>
         /\ visited_edges = << <<1, 2>>, <<1, 3>>, <<3, 5>>, <<5, 4>> >>
         /\ total_cost = 10

\* prim(1) has returned on the graph of scenario 3, with node 4 finalized
\* over the edge from 5 after its first parent 3 was overwritten.
C15_Witness ==
  /\ pc = "done" /\ alg = "prim" /\ src = 1
  /\ adj = BuildFrom(GraphNew, Scenario3Calls)
  /\ Len(visited_nodes) = 5
  /\ parent[4] = 5 /\ dist[4] = 1

\* The tail of the last edge event whose head is v (0 when there is none).
RECURSIVE LastTail(_, _)
LastTail(es, v) ==
  IF es = <<>> THEN 0
  ELSE IF es[Len(es)][2] = v THEN es[Len(es)][1]
       ELSE LastTail(SubSeq(es, 1, Len(es) - 1), v)

\* C16: in dijkstra, the step that scans the adjacency entry (v, w) of the
\* accepted node u appends the edge event (u, v) exactly when the candidate
\* u.cost + w is strictly below v's best-known distance, and then writes
\* dist[v], predecessor[v] := u and one heap entry (candidate, v) in the same
\* step; every other step leaves the edge sequence, the distances and the
\* predecessors alone.  So the edge sequence is the relaxation history: the
\* tail of every edge event is in the node sequence already, and the
\* predecessor of every node that has one is the tail of the last edge event
\* whose head it is, at every moment and so on return.
C16_EdgeEventsAreRelaxations ==
  /\ [][ alg = "dijkstra" /\ alg' = "dijkstra" /\ pc # "idle" =>
           IF pc = "dijkstra_scan" /\ idx <= Len(AdjOf(state.node))
             THEN LET u == state.node
                      v == AdjOf(u)[idx][1]
                      w == AdjOf(u)[idx][2]
                      candidate == state.cost + w
                  IN /\ u \in Range(visited_nodes)
                     /\ IF v \notin DOMAIN dist \/ candidate < dist[v]
                          THEN /\ visited_edges' = Append(visited_edges, <<u, v>>)
                               /\ dist' = MapPut(dist, v, candidate)
                               /\ parent' = MapPut(parent, v, u)
                               /\ Len(pq') = Len(pq) + 1
                               /\ \E i \in DOMAIN pq' :
                                    /\ pq'[i] = [cost |-> candidate, node |-> v]
                                    /\ Range(pq') = Range(pq) \cup {pq'[i]}
                          ELSE UNCHANGED <<visited_edges, dist, parent, pq>>
             ELSE UNCHANGED <<visited_edges, dist, parent>> ]_vars
  /\ [](alg = "dijkstra" =>
          /\ \A k \in DOMAIN visited_edges :
               visited_edges[k][1] \in Range(visited_nodes)
          /\ \A v \in DOMAIN parent : parent[v] = LastTail(visited_edges, v)
          /\ \A v \in DOMAIN dist \ {src} : v \in DOMAIN parent)

\* dijkstra has returned with as many edge events as nodes: one node is the
\* head of two edge events, and its predecessor is the tail of the later one.
C16_Witness ==
  /\ pc = "done" /\ alg = "dijkstra"
  /\ Len(visited_edges) > Len(visited_nodes) - 1
  /\ \E v \in DOMAIN parent :
       /\ Len(SelectSeq(visited_edges, LAMBDA e : e[2] = v)) = 2
       /\ parent[v] = LastTail(visited_edges, v)
       /\ parent[v] # SelectSeq(visited_edges, LAMBDA e : e[2] = v)[1][1]

\* C17: lazy deletion.  In dijkstra a pop whose cost is above the node's
\* best-known distance is discarded: it leaves the traces, the maps and the
\* processed set alone and no list is scanned; every other pop starts the
\* scan of a node that was not accepted before, at a cost equal to its
\* distance, and the distance of an accepted node never changes again: with
\* non-negative weights every list is scanned at most once, at the node's
\* final distance.  In prim a pop for a booked node is discarded in the same
\* way, the finalized nodes are the node sequence, which holds no node twice,
\* and an entry popped for a node that is not booked is never above that
\* node's best-known weight: the cost check discards nothing the booked
\* check lets through.
C17_LazyDeletion ==
  /\ [][ (alg = "dijkstra" /\ pc = "dijkstra_loop" /\ pq # <<>>) =>
           LET u == HeapTop(pq) IN
           IF u.cost > dist[u.node]
             THEN /\ pc' = "dijkstra_loop"
                  /\ UNCHANGED <<visited_nodes, visited_edges, dist, parent,
                                 processed>>
             ELSE /\ pc' = "dijkstra_scan" /\ state' = u /\ idx' = 1
                  /\ u.node \notin processed
                  /\ u.cost = dist[u.node]
                  /\ processed' = processed \cup {u.node} ]_vars
  /\ [][ (alg = "dijkstra" /\ alg' = "dijkstra" /\ pc # "idle") =>
           \A n \in processed : n \in DOMAIN dist' /\ dist'[n] = dist[n] ]_vars
  /\ [][ (alg = "prim" /\ pc = "prim_loop" /\ pq # <<>>) =>
           LET u == HeapTop(pq) IN
           IF u.node \in booked
             THEN /\ pc' = "prim_loop"
                  /\ UNCHANGED <<visited_nodes, visited_edges, dist, parent,
                                 booked, total_cost>>
             ELSE /\ pc' = "prim_scan" /\ state' = u /\ idx' = 1
                  /\ booked' = booked \cup {u.node}
                  /\ visited_nodes' = Append(visited_nodes, u.node) ]_vars
  /\ [](alg = "prim" =>
          /\ NoDup(visited_nodes) /\ Range(visited_nodes) = booked
          /\ (pc = "prim_loop" /\ pq # <<>> /\ HeapTop(pq).node \notin booked) =>
               /\ HeapTop(pq).node \in DOMAIN dist
               /\ HeapTop(pq).cost = dist[HeapTop(pq).node])
  /\ [](alg = "dijkstra" =>
          /\ NoDup(visited_nodes) /\ Range(visited_nodes) = processed
          /\ \A i \in DOMAIN pq : pq[i].node \in DOMAIN dist)

\* dijkstra is about to pop a stale entry: the heap holds an entry of an
\* accepted node whose cost is above the node's distance.
C17_Witness ==
  /\ alg = "dijkstra" /\ pc = "dijkstra_loop" /\ pq # <<>>
  /\ HeapTop(pq).node \in processed
  /\ HeapTop(pq).cost > dist[HeapTop(pq).node]

\* The hop distance of v from the nodes of `level`, which are d hops from
\* the source and, with those of `seen`, all nodes within d hops: the least
\* number of adjacency entries on a path to v (-1 when v is out of reach).
RECURSIVE HopFrom(_, _, _, _)
HopFrom(level, seen, d, v) ==
  IF v \in level THEN d
  ELSE LET next == {n \in GraphNodes \ seen : \E u \in level : HasEntry(u, n)}
       IN IF next = {} THEN 0 - 1
          ELSE HopFrom(next, seen \cup next, d + 1, v)

Hop(s, v) == HopFrom({s}, {s}, 0, v)

\* The position of the first entry of u's list that leads to v.
FirstEntryTo(u, v) ==
  CHOOSE i \in DOMAIN adj[u] :
    /\ adj[u][i][1] = v
    /\ \A j \in 1..(i - 1) : adj[u][j][1] # v

\* C18: bfs emits the nodes in level order.  At every moment of a call the
\* hop distance from the source never decreases along the node sequence,
\* the tail of every edge event is exactly one hop closer to the source than
\* its head, the edge events of one tail are in the order of that tail's
\* adjacency list, and the edge events are in the order in which their
\* tails were emitted.
C18_BfsLevelOrder ==
  alg = "bfs" =>
    /\ \A i, j \in DOMAIN visited_nodes :
         i <= j => /\ 0 <= Hop(src, visited_nodes[i])
                   /\ Hop(src, visited_nodes[i]) <= Hop(src, visited_nodes[j])
    /\ \A k \in DOMAIN visited_edges :
         Hop(src, visited_edges[k][1]) + 1 = Hop(src, visited_edges[k][2])
    /\ \A k, l \in DOMAIN visited_edges :
         (k < l /\ visited_edges[k][1] = visited_edges[l][1]) =>
           FirstEntryTo(visited_edges[k][1], visited_edges[k][2])
             < FirstEntryTo(visited_edges[l][1], visited_edges[l][2])
    /\ \A k, l \in DOMAIN visited_edges :
         k < l =>
           \E i, j \in DOMAIN visited_nodes :
             /\ i <= j
             /\ visited_nodes[i] = visited_edges[k][1]
             /\ visited_nodes[j] = visited_edges[l][1]

\* bfs has returned after discovering two nodes from the source in the order
\* of its list, the higher-numbered node first, although the node emitted
\* second has an entry to the node emitted third.
C18_Witness ==
  /\ pc = "done" /\ alg = "bfs"
  /\ Len(visited_nodes) = 3
  /\ visited_nodes[2] > visited_nodes[3]
  /\ visited_edges = << <<src, visited_nodes[2]>>, <<src, visited_nodes[3]>> >>
  /\ HasEntry(visited_nodes[2], visited_nodes[3])

\* The discovery tree of a traversal: the parent of an emitted node other
\* than the source is the tail of the edge event whose head it is, and the
\* ancestors of a node are the nodes on its way up to the source.
TreeParent(n) ==
  visited_edges[CHOOSE k \in DOMAIN visited_edges : visited_edges[k][2] = n][1]

RECURSIVE AncestorsOrSelf(_)
AncestorsOrSelf(n) ==
  IF n = src THEN {n} ELSE {n} \cup AncestorsOrSelf(TreeParent(n))

\* C19: dfs is a preorder depth-first traversal.  At every moment of a call
\* the k-th edge event has the (k+1)-th node as its head, and its tail is
\* the node emitted just before or an ancestor of that node in the discovery
\* tree.  The calls in progress are the path from the source to the
\* innermost node; each caller waits at the entry that led to its callee,
\* so the subtree of a neighbour is emitted before the next entry is
\* considered; the entries a call has passed lead to visited nodes, and a
\* node whose call has returned has no unvisited neighbour: the traversal
\* never stops while an unvisited neighbour of a node on the path remains.
C19_DfsPreorder ==
  alg = "dfs" =>
    /\ Len(visited_edges) = Len(visited_nodes) - 1
    /\ \A k \in DOMAIN visited_edges :
         /\ visited_edges[k][2] = visited_nodes[k + 1]
         /\ visited_edges[k][1] \in AncestorsOrSelf(visited_nodes[k])
    /\ stack # <<>> => stack[1].curr = src
    /\ \A i \in DOMAIN stack :
         /\ \A j \in 1..(stack[i].idx - 1) :
              AdjOf(stack[i].curr)[j][1] \in visited
         /\ i < Len(stack) =>
              /\ TreeParent(stack[i + 1].curr) = stack[i].curr
              /\ AdjOf(stack[i].curr)[stack[i].idx - 1][1] = stack[i + 1].curr
    /\ \A n \in visited \ {stack[i].curr : i \in DOMAIN stack} :
         \A j \in DOMAIN AdjOf(n) : AdjOf(n)[j][1] \in visited
    /\ (stack # <<>> /\ visited_nodes # <<>>) =>
         stack[Len(stack)].curr \in AncestorsOrSelf(visited_nodes[Len(visited_nodes)])

\* dfs has returned after backtracking: the second node emitted has an entry
\* back to the source only, and the third node was discovered from the
\* source, an ancestor of the second, once the call of the second returned.
C19_Witness ==
  /\ pc = "done" /\ alg = "dfs"
  /\ Len(visited_nodes) = 3
  /\ visited_edges[2] = <<src, visited_nodes[3]>>
  /\ HasEntry(visited_nodes[2], src)
  /\ ~HasEntry(visited_nodes[2], visited_nodes[3])

\* ---------------------------------------------------------------- playback
\* update_animation adds dt = 0.005 to animation_timer and steps when the
\* sum reaches 0.2, which the 40th addition does; the timer is counted in
\* additions of dt.
TicksPerStep == 40

\* The entries of visit_log: format!("访问节点: {}", node) and
\* format!("访问边: {} -> {}", edge.0, edge.1).
LogNode(n) == <<"访问节点", n>>
LogEdge(e) == <<"访问边", e[1], e[2]>>

\* current_algorithm as the run_* handler of the call sets it.
AlgorithmName ==
  CASE alg = "dfs" -> "DFS"
    [] alg = "bfs" -> "BFS"
    [] alg = "prim" -> "Prim"
    [] alg = "dijkstra" -> "Dijkstra"
    [] OTHER -> ""

\* `self.animation_step_is_edge = true;` at the end of every run_* handler.
FirstStepIsNode == FALSE

FirstStepIsEdge == TRUE

\* `self.visit_log.clear();` at the head of the handler and the push of the
\* first node's entry after the call.
SeedLogKept(log, n) == Append(log, LogNode(n))

SeedLog(log, n) == <<LogNode(n)>>

\* What a run_* handler leaves in the App when the call it made has returned
\* (nodes, edges): log and highlights cleared, the trace taken over, the
\* first node highlighted and logged, playback reset.
Loaded(a, nodes, edges) ==
  [a EXCEPT
     !.current_algorithm = AlgorithmName,
     !.visit_log = IF nodes # <<>> THEN SeedLog(@, nodes[1]) ELSE <<>>,
     !.visited_nodes = IF nodes # <<>> THEN {nodes[1]} ELSE {},
     !.visited_edges = {},
     !.animation_nodes = nodes,
     !.animation_edges = edges,
     !.prim_total_cost = IF alg = "prim" THEN total_cost ELSE @,
     !.dijkstra_dist = IF alg = "dijkstra" THEN dist ELSE @,
     !.dijkstra_parent = IF alg = "dijkstra" THEN parent ELSE @,
     !.animation_index = 0,
     !.animation_timer = 0,
     !.animation_step_is_edge = FirstStepIsEdge]

\* The calls the handlers make from the application's loop:
\* self.data_graph.dfs(1), bfs(1), prim(1), dijkstra(1).
RunDfs == pc = "app" /\ BeginDfs(1)
RunBfs == pc = "app" /\ BeginBfs(1)
RunPrim == pc = "app" /\ BeginPrim(1)
RunDijkstra == pc = "app" /\ BeginDijkstra(1)

\* The rest of the handler.  The handler runs to its end inside one
\* handle_events call: no update_animation and no draw falls between its
\* statements, so what it does to the App is one step, taken when the call
\* has returned.
RunLoad ==
  /\ pc = "done"
  /\ app' = Loaded(app, visited_nodes, visited_edges)
  /\ pc' = "app"
  /\ UNCHANGED <<graphVars, wraps, alg, src, travVars, visited_nodes,
                 visited_edges, cur, idx, heapVars, runs, steps, prev>>

\* `if self.animation_index < self.animation_edges.len()` of the node step:
\* an edge step follows the node step while the trace has an edge event at
\* the index.
EdgesLeftNever(a, i) == FALSE

EdgesLeft(a, i) == i < Len(a.animation_edges)

\* update_animation once the timer has reached its threshold: an edge step
\* or a node step.  animation_index counts from 0.
AnimationStep(a) ==
  LET i == a.animation_index IN
  IF a.animation_step_is_edge
    THEN LET b == IF i < Len(a.animation_edges)
                    THEN [a EXCEPT
                            !.visited_edges = @ \cup {a.animation_edges[i + 1]},
                            !.visit_log = Append(@, LogEdge(a.animation_edges[i + 1]))]
                    ELSE a
         IN [b EXCEPT !.animation_index = i + 1,
                      !.animation_step_is_edge = FALSE]
    ELSE LET b == IF i < Len(a.animation_nodes)
                    THEN [a EXCEPT
                            !.visited_nodes = @ \cup {a.animation_nodes[i + 1]},
                            !.visit_log = Append(@, LogNode(a.animation_nodes[i + 1]))]
                    ELSE a
         IN IF EdgesLeft(a, i)
              THEN [b EXCEPT !.animation_step_is_edge = TRUE]
              ELSE [b EXCEPT !.animation_index = i + 1]

\* App::update_animation, called once in every turn of the loop of App::run.
UpdateAnimation ==
  /\ pc = "app"
  /\ LET nodes_done == app.animation_index >= Len(app.animation_nodes)
         edges_done == app.animation_index >= Len(app.animation_edges)
     IN
     IF app.animation_nodes = <<>>
       THEN UNCHANGED app
       ELSE IF nodes_done /\ (edges_done \/ ~app.animation_step_is_edge)
         THEN UNCHANGED app
         ELSE IF app.animation_timer + 1 >= TicksPerStep
           THEN app' = AnimationStep([app EXCEPT !.animation_timer = 0])
           ELSE app' = [app EXCEPT !.animation_timer = @ + 1]
  /\ UNCHANGED <<graphVars, wraps, pc, alg, src, travVars, visited_nodes,
                 visited_edges, cur, idx, heapVars, runs, steps, prev>>

\* App::draw, line 235: the end-of-run summary is appended to the log lines
\* when playback is complete and an algorithm has been chosen.
SummaryShown ==
  /\ app.animation_index >= Len(app.animation_nodes)
  /\ app.current_algorithm # ""

\* The application on the graphs of up to MaxPlayEdges insertions: the graph
\* is built and displayed, one algorithm is chosen from the menu, and its
\* trace is played back.  The loop of App::run keeps calling
\* update_animation, and a call that was made runs to its return.
BuildFew == \E u \in Nodes, v \in Nodes, w \in Weights, t \in EdgeTypes :
              ncalls < MaxPlayEdges /\ AddEdge(u, v, w, t)

NextPlayback ==
  \/ BuildFew
  \/ InitGraph
  \/ runs = 0 /\ RunDfs
  \/ runs = 0 /\ RunBfs
  \/ runs = 0 /\ RunPrim
  \/ runs = 0 /\ RunDijkstra
  \/ BfsPop
  \/ BfsScan
  \/ BfsReturn
  \/ DfsStep
  \/ DfsReturn
  \/ DijkstraPop
  \/ DijkstraScan
  \/ DijkstraReturn
  \/ PrimPop
  \/ PrimScan
  \/ PrimReturn
  \/ RunLoad
  \/ UpdateAnimation

SpecPlayback ==
  /\ Init /\ [][NextPlayback]_vars
  /\ WF_vars(UpdateAnimation) /\ WF_vars(RunLoad)
  /\ WF_vars(BfsPop \/ BfsScan \/ BfsReturn \/ DfsStep \/ DfsReturn)
  /\ WF_vars(DijkstraPop \/ DijkstraScan \/ DijkstraReturn)
  /\ WF_vars(PrimPop \/ PrimScan \/ PrimReturn)

\* The nodes of the "访问节点" entries of a log, in the order of the log.
RECURSIVE LoggedNodes(_)
LoggedNodes(log) ==
  IF log = <<>> THEN <<>>
  ELSE IF Head(log)[1] = "访问节点"
         THEN <<Head(log)[2]>> \o LoggedNodes(Tail(log))
         ELSE LoggedNodes(Tail(log))

IsPrefixOf(s, t) == Len(s) <= Len(t) /\ \A i \in 1..Len(s) : s[i] = t[i]

\* Playback of the trace the call returned is complete: every node of the
\* trace is logged and highlighted, the index has reached the number of trace
\* nodes, and draw shows the summary.
PlaybackComplete ==
  /\ pc = "app"
  /\ app.animation_nodes = visited_nodes
  /\ LoggedNodes(app.visit_log) = app.animation_nodes
  /\ app.visited_nodes = {app.animation_nodes[i] : i \in 1..Len(app.animation_nodes)}
  /\ SummaryShown

\* C20: once an algorithm is started from the menu, the node entries of the
\* log are at every moment a prefix of the returned node sequence (so every
\* node is logged at most once and in trace order) and exactly the logged
\* nodes are highlighted; and the animation steps eventually log and
\* highlight every node of the sequence and bring animation_index to the
\* number of trace nodes, where the summary is shown.
C20_PlaybackReachesEveryNode ==
  /\ [](app.current_algorithm # "" =>
          /\ IsPrefixOf(LoggedNodes(app.visit_log), app.animation_nodes)
          /\ app.visited_nodes =
               {n \in Nodes : \E i \in 1..Len(app.visit_log) :
                                app.visit_log[i] = LogNode(n)}
          /\ \A i, j \in 1..Len(app.visit_log) :
               (i # j /\ app.visit_log[i][1] = "访问节点")
                 => app.visit_log[i] # app.visit_log[j])
  /\ ((alg # "none") ~> PlaybackComplete)

\* C20 witness: a trace of three nodes has been played back to its end.
C20_Witness ==
  /\ PlaybackComplete
  /\ Len(app.animation_nodes) = MaxNode
  /\ Len(app.visit_log) > MaxNode

\* ------------------------------------------------- playback of edge events
\* The application on the graphs of up to MaxFanEdges one-way insertions out
\* of node 1, the source of every run: parallel edges of falling weight make
\* dijkstra relax the same node several times, so its trace has more edge
\* events than nodes.
BuildFan == \E v \in Nodes, w \in Weights :
              ncalls < MaxFanEdges /\ AddEdge(1, v, w, "Single")

NextPlaybackFan ==
  \/ BuildFan
  \/ InitGraph
  \/ runs = 0 /\ RunDfs
  \/ runs = 0 /\ RunBfs
  \/ runs = 0 /\ RunPrim
  \/ runs = 0 /\ RunDijkstra
  \/ BfsPop
  \/ BfsScan
  \/ BfsReturn
  \/ DfsStep
  \/ DfsReturn
  \/ DijkstraPop
  \/ DijkstraScan
  \/ DijkstraReturn
  \/ PrimPop
  \/ PrimScan
  \/ PrimReturn
  \/ RunLoad
  \/ UpdateAnimation

SpecPlaybackFan ==
  /\ Init /\ [][NextPlaybackFan]_vars
  /\ WF_vars(UpdateAnimation) /\ WF_vars(RunLoad)
  /\ WF_vars(BfsPop \/ BfsScan \/ BfsReturn \/ DfsStep \/ DfsReturn)
  /\ WF_vars(DijkstraPop \/ DijkstraScan \/ DijkstraReturn)
  /\ WF_vars(PrimPop \/ PrimScan \/ PrimReturn)

\* The edges of the "访问边" entries of a log, in the order of the log.
RECURSIVE LoggedEdges(_)
LoggedEdges(log) ==
  IF log = <<>> THEN <<>>
  ELSE IF Head(log)[1] = "访问边"
         THEN <<<<Head(log)[2], Head(log)[3]>>>> \o LoggedEdges(Tail(log))
         ELSE LoggedEdges(Tail(log))

\* Every edge event of the trace the call returned is logged and highlighted.
EveryEdgePlayed ==
  /\ pc = "app"
  /\ app.animation_edges = visited_edges
  /\ LoggedEdges(app.visit_log) = app.animation_edges
  /\ app.visited_edges =
       {app.animation_edges[i] : i \in 1..Len(app.animation_edges)}

\* C21: once an algorithm is started, the animation steps eventually log and
\* highlight every edge event of the returned edge sequence, whatever the
\* lengths of the node and the edge sequence.
C21_Original == (alg # "none") ~> EveryEdgePlayed

\* The log that playback has written when it has taken k steps: the first
\* node of the trace, then edge 0, node 1, edge 1, node 2, ... in turn.
ExpectedLogEntry(a, i) ==
  IF i % 2 = 1 THEN (i + 1) \div 2 <= Len(a.animation_nodes)
                    /\ a.visit_log[i] = LogNode(a.animation_nodes[(i + 1) \div 2])
               ELSE i \div 2 <= Len(a.animation_edges)
                    /\ a.visit_log[i] = LogEdge(a.animation_edges[i \div 2])

\* C22: during playback the log is node 0, edge 0, node 1, edge 1, ... of
\* the trace, entry by entry (edge and node steps alternate, edge k comes
\* before node k+1 and nothing comes twice); the highlighted nodes are the
\* logged nodes, a prefix of the node sequence, and the highlighted edges are
\* the logged edges, a prefix of the edge sequence; the next step is an edge
\* step exactly when the log ends with a node and an edge event is left at
\* the index; and when animation_index has reached the number of trace nodes,
\* a call of update_animation changes nothing in the App.
C22_PlaybackOrder ==
  /\ [](app.current_algorithm # "" =>
          /\ \A i \in 1..Len(app.visit_log) : ExpectedLogEntry(app, i)
          /\ IsPrefixOf(LoggedNodes(app.visit_log), app.animation_nodes)
          /\ IsPrefixOf(LoggedEdges(app.visit_log), app.animation_edges)
          /\ app.visited_nodes =
               {app.animation_nodes[i] :
                  i \in 1..Len(LoggedNodes(app.visit_log))}
          /\ app.visited_edges =
               {app.animation_edges[i] :
                  i \in 1..Len(LoggedEdges(app.visit_log))}
          /\ Len(LoggedNodes(app.visit_log)) - Len(LoggedEdges(app.visit_log))
               \in {0, 1}
          /\ app.animation_index <= Len(app.animation_nodes)
          /\ (app.animation_index < Len(app.animation_nodes) =>
                (app.animation_step_is_edge
                   <=> Len(app.visit_log) % 2 = 1)))
  /\ [][(pc = "app" /\ pc' = "app"
           /\ app.animation_index >= Len(app.animation_nodes))
          => app' = app]_vars

\* C22 witness: playback has ended on a trace with more edge events than
\* nodes, after edge and node steps in turn.
C22_Witness ==
  /\ pc = "app"
  /\ app.current_algorithm # ""
  /\ app.animation_index >= Len(app.animation_nodes)
  /\ Len(app.animation_edges) > Len(app.animation_nodes)
  /\ Len(app.visit_log) = 2 * Len(app.animation_nodes)
  /\ Len(app.animation_nodes) > 1

\* ------------------------------------------------------------------ restart
\* The graphs of up to MaxRestartEdges one-way insertions out of node 1; on
\* some of them the four algorithms do not return the same trace (bfs and dfs
\* follow the adjacency list of node 1, prim and dijkstra the weights).
BuildRestart == \E v \in Nodes, w \in Weights :
                  ncalls < MaxRestartEdges /\ AddEdge(1, v, w, "Single")

\* The application with the menu's algorithms chosen at any moment of the
\* loop: before any run, in the middle of a playback, and when it is done.
NextRestart ==
  \/ BuildRestart
  \/ InitGraph
  \/ runs < MaxRuns /\ RunDfs
  \/ runs < MaxRuns /\ RunBfs
  \/ runs < MaxRuns /\ RunPrim
  \/ runs < MaxRuns /\ RunDijkstra
  \/ BfsPop
  \/ BfsScan
  \/ BfsReturn
  \/ DfsStep
  \/ DfsReturn
  \/ DijkstraPop
  \/ DijkstraScan
  \/ DijkstraReturn
  \/ PrimPop
  \/ PrimScan
  \/ PrimReturn
  \/ RunLoad
  \/ UpdateAnimation

SpecRestart == Init /\ [][NextRestart]_vars

\* C23: when a run_* handler has run, whatever the playback state it found,
\* the App holds the trace of the call it made and nothing of an earlier
\* run: exactly the first trace node is highlighted, no edge is highlighted,
\* the log holds the entry of the first node and no other, animation_index
\* is 0 and the next step is an edge step.
C23_RestartResets ==
  [][(pc = "done" /\ pc' = "app") =>
       /\ app'.current_algorithm = AlgorithmName
       /\ app'.animation_nodes = visited_nodes
       /\ app'.animation_edges = visited_edges
       /\ app'.visited_nodes = {visited_nodes[1]}
       /\ app'.visited_edges = {}
       /\ app'.visit_log = <<LogNode(visited_nodes[1])>>
       /\ app'.animation_index = 0
       /\ app'.animation_step_is_edge]_vars

\* C23 witness: Prim has been chosen after a Dijkstra run on a graph of
\* three nodes; the App holds Prim's trace at its start, and of the Dijkstra
\* run only the tables that nothing displays under Prim.
C23_Witness ==
  /\ pc = "app"
  /\ runs = MaxRuns
  /\ app.current_algorithm = "Prim"
  /\ app.dijkstra_parent # EmptyMap
  /\ app.animation_nodes = <<1, 3, 2>>
  /\ app.visited_nodes = {1}
  /\ app.visited_edges = {}
  /\ Len(app.visit_log) = 1
  /\ app.animation_index = 0

\* ------------------------------------------------------- the menu, alone
\* The operations of MenuState on the menu the App holds, called in any
\* order: menu.up(),
MenuUp ==
  /\ pc = "idle"
  /\ app' = [app EXCEPT !.menu = Up(@)]
  /\ UNCHANGED <<graphVars, wraps, pc, alg, src, travVars, visited_nodes,
                 visited_edges, cur, idx, heapVars, runs, steps, prev>>

\* menu.down()
MenuDown ==
  /\ pc = "idle"
  /\ app' = [app EXCEPT !.menu = Down(@)]
  /\ UNCHANGED <<graphVars, wraps, pc, alg, src, travVars, visited_nodes,
                 visited_edges, cur, idx, heapVars, runs, steps, prev>>

\* menu.enter(), its signal dropped
MenuEnter ==
  /\ pc = "idle"
  /\ app' = [app EXCEPT !.menu = Enter(@)]
  /\ UNCHANGED <<graphVars, wraps, pc, alg, src, travVars, visited_nodes,
                 visited_edges, cur, idx, heapVars, runs, steps, prev>>

\* menu.back()
MenuBack ==
  /\ pc = "idle"
  /\ app' = [app EXCEPT !.menu = Back(@)]
  /\ UNCHANGED <<graphVars, wraps, pc, alg, src, travVars, visited_nodes,
                 visited_edges, cur, idx, heapVars, runs, steps, prev>>

\* The menus of the specification: the empty menu, the menu of the
\* application, and every menu of up to three levels with up to MaxMenuWidth
\* items in a list and leaves named from MenuLeafNames.
MenuLeafNames == {"Dfs", "Exit"}

ListsUpTo(S, n) == UNION {[1..k -> S] : k \in 1..n}

MenuLeaves == {MenuItemLeaf(n) : n \in MenuLeafNames}

MenuLevel1 ==
  MenuLeaves \cup
    {MenuItemNew("MST", c) : c \in ListsUpTo(MenuLeaves, MaxMenuWidth)}

MenuLevel2 ==
  MenuLeaves \cup
    {MenuItemNew("Traversal", c) : c \in ListsUpTo(MenuLevel1, MaxMenuWidth)}

MenuRoots == {<<>>, AppMenuItems} \cup ListsUpTo(MenuLevel2, MaxMenuWidth)

InitMenu ==
  /\ adj = GraphNew
  /\ ncalls = 0
  /\ allBoth = TRUE
  /\ EngineIdle
  /\ \E items \in MenuRoots : app = [AppNew EXCEPT !.menu = MenuNew(items)]

NextMenu ==
  \/ MenuUp
  \/ MenuDown
  \/ MenuEnter
  \/ MenuBack

SpecMenu == InitMenu /\ [][NextMenu]_vars

\* path is a path of indices from list through items that have children.
RECURSIVE ValidPath(_, _)
ValidPath(list, path) ==
  \/ path = <<>>
  \/ /\ Head(path) < Len(list)
     /\ list[Head(path) + 1].children # <<>>
     /\ ValidPath(list[Head(path) + 1].children, Tail(path))

\* C24: in a menu with a non-empty root list, whatever up, down, enter and
\* back calls were made, an index is selected and it is an index of the
\* displayed list, nav_stack is a path of indices from the root through
\* items that have children, and the displayed list is not empty; up at
\* index 0 selects the last item and down at the last item selects index 0.
C24_MenuInvariant ==
  LET m == app.menu
      len == Len(GetCurrentItems(m))
  IN m.root_items # <<>> =>
       /\ m.selected # None
       /\ m.selected[1] \in 0..(len - 1)
       /\ ValidPath(m.root_items, m.nav_stack)
       /\ len > 0
       /\ m.selected = Some(0) => Up(m).selected = Some(len - 1)
       /\ m.selected = Some(len - 1) => Down(m).selected = Some(0)
       /\ m.selected[1] > 0 => Up(m).selected = Some(m.selected[1] - 1)
       /\ m.selected[1] < len - 1 => Down(m).selected = Some(m.selected[1] + 1)

\* C24 witness: two levels down in a menu, on the second item of a list,
\* after a leaf was chosen there.
C24_Witness ==
  /\ Len(app.menu.nav_stack) = 2
  /\ app.menu.selected = Some(1)
  /\ app.menu.last_selected_item # None
  /\ app.menu.nav_stack[1] = 1

\* Up to MaxMoves up and down calls, in any order.
MoveLists == {<<>>} \cup ListsUpTo({"up", "down"}, MaxMoves)

RECURSIVE ApplyMoves(_, _)
ApplyMoves(m, moves) ==
  IF moves = <<>> THEN m
  ELSE ApplyMoves(IF Head(moves) = "up" THEN Up(m) ELSE Down(m), Tail(moves))

\* C25: from every state of a menu in which the selected item has children,
\* enter, then any up and down calls, then back give the nav_stack and the
\* selected index that were there before the enter; and back with an empty
\* nav_stack changes nothing.
C25_MenuRoundTrip ==
  LET m == app.menu IN
  /\ (m.selected # None /\ EnterItem(m).has_children) =>
       \A moves \in MoveLists :
         LET b == Back(ApplyMoves(Enter(m), moves))
         IN /\ Enter(m).nav_stack = Append(m.nav_stack, m.selected[1])
            /\ ApplyMoves(Enter(m), moves).nav_stack = Enter(m).nav_stack
            /\ b.nav_stack = m.nav_stack
            /\ b.selected = m.selected
  /\ m.nav_stack = <<>> => Back(m) = m

\* C25 witness: one level down, the second item of the list is selected and
\* has two children, so that the moves in its submenu change the index.
C25_Witness ==
  /\ Len(app.menu.nav_stack) = 1
  /\ app.menu.selected = Some(1)
  /\ EnterItem(app.menu).has_children
  /\ Len(GetCurrentItems(Enter(app.menu))) = MaxMenuWidth
  /\ Up(Enter(app.menu)).selected # Enter(app.menu).selected

\* ------------------------------------------------------- keys and the menu
\* App::handle_events on a key press: j, k, h move in the menu, q asks for
\* the exit, l and Enter call menu.enter() and dispatch on its signal.  The
\* keys that move the anchor and change the radius touch no field followed
\* here.  The loop of App::run reads keys while exit is false.
KeyDown ==
  /\ pc = "app" /\ ~app.exit
  /\ app' = [app EXCEPT !.menu = Down(@)]
  /\ UNCHANGED <<graphVars, wraps, pc, alg, src, travVars, visited_nodes,
                 visited_edges, cur, idx, heapVars, runs, steps, prev>>

KeyUp ==
  /\ pc = "app" /\ ~app.exit
  /\ app' = [app EXCEPT !.menu = Up(@)]
  /\ UNCHANGED <<graphVars, wraps, pc, alg, src, travVars, visited_nodes,
                 visited_edges, cur, idx, heapVars, runs, steps, prev>>

KeyBack ==
  /\ pc = "app" /\ ~app.exit
  /\ app' = [app EXCEPT !.menu = Back(@)]
  /\ UNCHANGED <<graphVars, wraps, pc, alg, src, travVars, visited_nodes,
                 visited_edges, cur, idx, heapVars, runs, steps, prev>>

KeyQuit ==
  /\ pc = "app" /\ ~app.exit
  /\ app' = [app EXCEPT !.exit = TRUE]
  /\ UNCHANGED <<graphVars, wraps, pc, alg, src, travVars, visited_nodes,
                 visited_edges, cur, idx, heapVars, runs, steps, prev>>

\* `match self.menu.enter()`: the handler goes on to the dispatch when the
\* signal is Selected(name), and is over when it is None.  The name is the
\* one enter has left in last_selected_item.
KeyEnter ==
  /\ pc = "app" /\ ~app.exit
  /\ runs < MaxRuns
  /\ app' = [app EXCEPT !.menu = Enter(@)]
  /\ pc' = IF EnterSignal(app.menu) # None THEN "selected" ELSE "app"
  /\ UNCHANGED <<graphVars, wraps, alg, src, travVars, visited_nodes,
                 visited_edges, cur, idx, heapVars, runs, steps, prev>>

\* `match name.as_str()`: the four handlers make their call, "退出" sets
\* exit, any other name does nothing.
Dispatch ==
  /\ pc = "selected"
  /\ LET name == app.menu.last_selected_item[1] IN
     CASE name = "Bfs" -> BeginBfs(1)
       [] name = "Dfs" -> BeginDfs(1)
       [] name = "Prim" -> BeginPrim(1)
       [] name = "Dijkstra" -> BeginDijkstra(1)
       [] name = "Exit" ->
            /\ app' = [app EXCEPT !.exit = TRUE]
            /\ pc' = "app"
            /\ UNCHANGED <<graphVars, wraps, alg, src, travVars,
                           visited_nodes, visited_edges, cur, idx, heapVars,
                           runs, steps, prev>>
       [] OTHER ->
            /\ pc' = "app"
            /\ UNCHANGED <<graphVars, wraps, app, alg, src, travVars,
                           visited_nodes, visited_edges, cur, idx, heapVars,
                           runs, steps, prev>>

\* The application with its menu, on the graphs of up to MaxKeyEdges one-way
\* insertions out of node 1.  update_animation is left enabled after exit is
\* set (the loop makes one more call of it, then ends).
BuildKeys == \E v \in Nodes, w \in Weights :
               ncalls < MaxKeyEdges /\ AddEdge(1, v, w, "Single")

NextKeys ==
  \/ BuildKeys
  \/ InitGraph
  \/ KeyDown
  \/ KeyUp
  \/ KeyBack
  \/ KeyQuit
  \/ KeyEnter
  \/ Dispatch
  \/ BfsPop
  \/ BfsScan
  \/ BfsReturn
  \/ DfsStep
  \/ DfsReturn
  \/ DijkstraPop
  \/ DijkstraScan
  \/ DijkstraReturn
  \/ PrimPop
  \/ PrimScan
  \/ PrimReturn
  \/ RunLoad
  \/ UpdateAnimation

SpecKeys == Init /\ [][NextKeys]_vars

\* The item at the selected index of the displayed list.
SelectedItem(m) == GetCurrentItems(m)[m.selected[1] + 1]

\* The leaves of the menu that stand for an algorithm, and the algorithm.
AlgorithmLeaves == {"Dfs", "Bfs", "Prim", "Dijkstra"}

AlgorithmOfLeaf(name) ==
  CASE name = "Dfs" -> "dfs"
    [] name = "Bfs" -> "bfs"
    [] name = "Prim" -> "prim"
    [] name = "Dijkstra" -> "dijkstra"

\* What the claim says of enter, on a step of the key handler: on a leaf the
\* signal is Selected(name) with the leaf's name, nav_stack and the selected
\* index stay and last_selected_item becomes the name; on an item with
\* children the signal is None, the selected index is pushed on nav_stack and
\* index 0 is selected.
EnterAsClaimed ==
  KeyEnter =>
    LET m == app.menu
        item == SelectedItem(m)
    IN IF item.children = <<>>
         THEN /\ EnterSignal(m) = Some(item.name)
              /\ pc' = "selected"
              /\ app'.menu.nav_stack = m.nav_stack
              /\ app'.menu.selected = m.selected
              /\ app'.menu.last_selected_item = Some(item.name)
         ELSE /\ EnterSignal(m) = None
              /\ pc' = "app"
              /\ app'.menu.nav_stack = Append(m.nav_stack, m.selected[1])
              /\ app'.menu.selected = Some(0)

\* A call of an algorithm begins only in the dispatch that follows an enter
\* on a leaf, it is the algorithm of that leaf, called with source 1; and
\* the dispatch of an algorithm's leaf begins that call and no other.
StartsAsClaimed ==
  /\ (pc \in {"app", "selected"} /\ pc' \notin {"app", "selected"}) =>
       /\ pc = "selected"
       /\ SelectedItem(app.menu).children = <<>>
       /\ app.menu.last_selected_item = Some(SelectedItem(app.menu).name)
       /\ SelectedItem(app.menu).name \in AlgorithmLeaves
  /\ pc = "selected" =>
       IF SelectedItem(app.menu).name \in AlgorithmLeaves
         THEN /\ alg' = AlgorithmOfLeaf(SelectedItem(app.menu).name)
              /\ src' = 1
              /\ pc' \notin {"app", "selected"}
              /\ app' = app
         ELSE pc' = "app" /\ alg' = alg

\* exit is set in the dispatch that follows an enter on the leaf "退出".
ExitByLeaf ==
  /\ pc = "selected"
  /\ SelectedItem(app.menu).children = <<>>
  /\ SelectedItem(app.menu).name = "Exit"
  /\ app.menu.last_selected_item = Some("Exit")

\* exit is set by the key q, whatever the menu shows.
ExitByKey == pc = "app" /\ pc' = "app" /\ app' = [app EXCEPT !.exit = TRUE]

\* C26 as stated: enter signals Selected(name) exactly on a leaf, with the
\* effects above; an algorithm is started only by enter on a leaf, one per
\* enter; and the exit is requested only by enter on a leaf.
C26_Original ==
  /\ [][EnterAsClaimed]_vars
  /\ [][StartsAsClaimed]_vars
  /\ [][(app'.exit /\ ~app.exit) => ExitByLeaf]_vars

\* C26: enter signals Selected(name) exactly on a leaf, with the effects
\* above; an algorithm is started only by enter on a leaf, one per enter on
\* an algorithm's leaf; the exit is requested by enter on the leaf "退出" or
\* by the key q.
C26_SelectionSignal ==
  /\ [][EnterAsClaimed]_vars
  /\ [][StartsAsClaimed]_vars
  /\ [][(app'.exit /\ ~app.exit) => (ExitByLeaf \/ ExitByKey)]_vars

\* C26 witness: Prim's call has just begun, from the dispatch of the leaf
\* "Prim" in the submenu of the second root item.
C26_Witness ==
  /\ alg = "prim" /\ src = 1
  /\ pc = "prim_loop" /\ pq # <<>>
  /\ visited_nodes = <<>>
  /\ app.menu.nav_stack = <<1>>
  /\ app.menu.selected = Some(0)
  /\ app.menu.last_selected_item = Some("Prim")
  /\ ~app.exit

====
